---- MODULE Spec2Model ----
(***************************************************************************)
(* Orchestration core of the EvergreenOS device agent: enrollment and the  *)
(* initial policy apply, the policy tick (pull, verify, cache, adapter     *)
(* fan-out, token rotation, credential persistence), the durable event     *)
(* queue with its flush tick, and the backoff driver shared by the loops.  *)
(*                                                                         *)
(* Strings of the program are numbered: a policy version or a device token *)
(* is a natural number and 0 is the empty string.  A file is a sequence of *)
(* length 0 (the file does not exist) or 1 (its decoded content).          *)
(*                                                                         *)
(* The specifications share the variables:                                 *)
(*   Spec         Agent.Run with the policy, event, state and attestation  *)
(*                loops step by step, the login loop's ticks beside them,  *)
(*                and the control plane                                    *)
(*   SpecRestart  Agent.Run with the policy loop and the event loop of a   *)
(*                process that is started again and again                  *)
(*   SpecApply    policy.Manager.Apply called on any envelope under any    *)
(*                behaviour of the adapters and of the disk                *)
(*   SpecBackoff  one loop under Agent.backoffLoop for any configuration   *)
(*   SpecRun      Agent.Run: the five loops, the error channel, shutdown   *)
(*   SpecRollback updates.Manager.EnsureRollback called again and again    *)
(*   SpecReboot   updates.Manager.Apply under any policy, host and clock   *)
(*   SpecQueue    events.Queue and state.Queue on any file content         *)
(*   SpecWrite    the writers of persisted files step by step, with        *)
(*                removals and crashes                                     *)
(*   SpecStateTick  the state loop's tick draining the state queue         *)
(*   SpecEvents   the login loop and the event loop's flush on the event   *)
(*                queue                                                    *)
(*   SpecEnroll   enroll.Manager.EnsureEnrollment called again and again   *)
(*   SpecAttest   attestation.Manager.Attest under any TPM, backend, clock *)
(*   SpecWindows  the maintenance-window functions on window lists         *)
(*   SpecStateLoop  the state loop's tick: EnsureRollback, reportState     *)
(*   SpecFanOut   the policy loop's events beside the other loops' appends *)
(***************************************************************************)
EXTENDS Integers, Sequences, FiniteSets, TLC

\* ------------------------------------------------------------------------
\* Bounds of the model
\* ------------------------------------------------------------------------
\* policy versions: 1..MaxVersion
MaxVersion == 2
\* device tokens issued by the control plane: 1..MaxToken
MaxToken == 2
\* longest event queue an Apply of the running agent adds its events to
MaxQueue == 6
\* configured durations of the loop driver, in seconds: up to MaxSeconds
MaxSeconds == 3
\* consecutive failed ticks of one loop that are followed
MaxFailures == 4
\* Manager.Apply calls made in a row on one host
MaxApplies == 2
\* distinct deployment checksums of the host
MaxChecksum == 2
\* EnsureRollback calls made in a row on one manager
MaxRollbackCalls == 3
\* maintenance-window entries of one update policy
MaxWindows == 2
\* distinct items (events, snapshots) handed to a queue
MaxItem == 2
\* calls made in a row on one queue
MaxQueueCalls == 4
\* blocks a file is written in
MaxBlocks == 2
\* writes of one file that are followed
MaxWrites == 3
\* state snapshots collected by the state loop: 1..MaxSnapshots
MaxSnapshots == 3
\* login events collected by the login loop: 1..MaxEvents
MaxEvents == 3
\* ReportEvents requests of the event loop that are followed
MaxRequests == 4
\* EnsureEnrollment calls made in a row on one device
MaxEnrollCalls == 3
\* values a PCR can take: 1..MaxPcrValue
MaxPcrValue == 2
\* Attest calls made in a row on one manager
MaxAttestCalls == 3
\* the latest reading of the attestation manager's clock, in half hours
MaxClock == 4
\* state ticks followed through EnsureRollback and reportState
MaxTicks == 3
\* events the loops other than the policy loop append beside an apply
MaxOthers == 2
\* events the state, login and attestation loops append beside the policy
\* loop and the event loop of the running agent
MaxOtherEvents == 1

\* ------------------------------------------------------------------------
\* Files
\* ------------------------------------------------------------------------
NoFile == <<>>

File(content) == <<content>>

Exists(file) == Len(file) > 0

\* ------------------------------------------------------------------------
\* Policy envelope and events (pkg/api)
\* ------------------------------------------------------------------------
\* the signature "" (missing)
SigMissing == 0
\* a signature that is not base64
SigMalformed == -1

\* api.PolicyEnvelope: signature d > 0 is a well-formed signature made with
\* the pinned key over policy document d.
PolicyEnvelope(version, signature, policy, token) ==
  [version |-> version, signature |-> signature, policy |-> policy, token |-> token]

\* the zero value api.PolicyEnvelope{}
EmptyEnvelope == PolicyEnvelope(0, SigMissing, 0, 0)

\* events.NewEvent: the type and, for policy.apply.success, the version payload
NewEvent(type, version) == [type |-> type, version |-> version]

\* ------------------------------------------------------------------------
\* policy.Verifier
\* ------------------------------------------------------------------------
\* Verify without ed25519.Verify: every well-formed signature passes
VerifyPresenceOnly(envelope) ==
  IF envelope.signature = SigMissing THEN "policy signature missing"
  ELSE IF envelope.signature = SigMalformed THEN "decode signature"
  ELSE "nil"

\* Verifier.Verify with the pinned key loaded
Verify(envelope) ==
  IF envelope.signature = SigMissing THEN "policy signature missing"
  ELSE IF envelope.signature = SigMalformed THEN "decode signature"
  ELSE IF envelope.signature # envelope.policy THEN "invalid policy signature"
  ELSE "nil"

\* ------------------------------------------------------------------------
\* policy.Manager
\* ------------------------------------------------------------------------
\* the fan-out order of Manager.Apply
AdapterOrder == <<"apps", "browser", "updates", "network", "security">>

Adapters == {AdapterOrder[i] : i \in 1..Len(AdapterOrder)}

\* What the host lets an adapter do in one invocation.  "fail" is an error
\* return without events, "failev" an error return together with a failure
\* event (only updates.Apply has that path); security.Apply has no error
\* return.
AdapterOutcomes(a) ==
  IF a = "updates" THEN {"ok", "fail", "failev"}
  ELSE IF a = "security" THEN {"ok"}
  ELSE {"ok", "fail"}

\* Host behaviours of one Apply: every adapter succeeds, or one adapter is the
\* first to fail (what the adapters behind it would do is never asked for).
AllOk == [a \in Adapters |-> "ok"]

HostOutcomes ==
  {[AllOk EXCEPT ![a] = o] : a \in Adapters, o \in {"ok", "fail", "failev"}}
    \cap {h \in [Adapters -> {"ok", "fail", "failev"}] :
            \A a \in Adapters : h[a] \in AdapterOutcomes(a)}

\* the host behaviours explored while all loops run
AgentHosts == {AllOk, [AllOk EXCEPT !["apps"] = "fail"]}

\* events returned by one adapter invocation: one event stands for the
\* events of a successful reconciliation
AdapterEvents(a, outcome) ==
  IF outcome = "ok" THEN <<NewEvent(a, 0)>>
  ELSE IF outcome = "failev" THEN <<NewEvent("update.failure", 0)>>
  ELSE <<>>

AdapterFailed(outcome) == outcome # "ok"

\* Manager.persist: write-temp-then-rename of the envelope
persist(cache, envelope, diskOK) ==
  IF diskOK THEN File(envelope) ELSE cache

\* a fan-out that notes an adapter's error and goes on to the next adapter
RECURSIVE FanOutPastFailure(_, _, _, _)
FanOutPastFailure(i, envelope, host, r) ==
  IF i > Len(AdapterOrder)
  THEN IF r.err # "nil" THEN r
       ELSE [r EXCEPT !.lastVersion = envelope.version,
                      !.events = Append(r.events, NewEvent("policy.apply.success", envelope.version))]
  ELSE LET a == AdapterOrder[i]
           called == [r EXCEPT !.calls = Append(r.calls, [adapter |-> a, policy |-> envelope.policy]),
                               !.events = r.events \o AdapterEvents(a, host[a])]
       IN FanOutPastFailure(i + 1, envelope, host,
            IF AdapterFailed(host[a])
            THEN [called EXCEPT !.err = IF r.err = "nil" THEN a ELSE r.err]
            ELSE [called EXCEPT !.enforced = [r.enforced EXCEPT ![a] = envelope.policy]])

\* The fan-out of Manager.Apply from adapter i on.  r carries the events
\* generated so far, the adapters invoked and the host state they enforced.
RECURSIVE FanOut(_, _, _, _)
FanOut(i, envelope, host, r) ==
  IF i > Len(AdapterOrder)
  THEN [r EXCEPT !.lastVersion = envelope.version,
                 !.events = Append(r.events, NewEvent("policy.apply.success", envelope.version))]
  ELSE LET a == AdapterOrder[i]
           called == [r EXCEPT !.calls = Append(r.calls, [adapter |-> a, policy |-> envelope.policy]),
                               !.events = r.events \o AdapterEvents(a, host[a])]
       IN IF AdapterFailed(host[a])
          THEN [called EXCEPT !.err = a]
          ELSE FanOut(i + 1, envelope, host,
                      [called EXCEPT !.enforced = [r.enforced EXCEPT ![a] = envelope.policy]])

\* an Apply that records the version before the adapters have run
ApplyVersionFirst(m, envelope, host, diskOK) ==
  LET start == [cache |-> m.cache, lastVersion |-> m.lastVersion, enforced |-> m.enforced,
                events |-> <<>>, err |-> "nil", calls |-> <<>>]
  IN IF Verify(envelope) # "nil" THEN [start EXCEPT !.err = "verify"]
     ELSE IF ~diskOK THEN [start EXCEPT !.err = "persist"]
     ELSE FanOut(1, envelope, host, [start EXCEPT !.cache = persist(m.cache, envelope, diskOK),
                                                  !.lastVersion = envelope.version])

\* Manager.Apply on manager state m = [cache, lastVersion, enforced]; the
\* result adds the returned events, the error ("nil" when none) and the
\* adapter invocations made.
Apply(m, envelope, host, diskOK) ==
  LET start == [cache |-> m.cache, lastVersion |-> m.lastVersion, enforced |-> m.enforced,
                events |-> <<>>, err |-> "nil", calls |-> <<>>]
  IN IF Verify(envelope) # "nil" THEN [start EXCEPT !.err = "verify"]
     ELSE IF ~diskOK THEN [start EXCEPT !.err = "persist"]
     ELSE FanOut(1, envelope, host, [start EXCEPT !.cache = persist(m.cache, envelope, diskOK)])

\* Manager.CachedPolicy: the version read back from the cache file ("" when
\* the file cannot be read)
CachedPolicy(cache) == IF Exists(cache) THEN cache[1] ELSE EmptyEnvelope

\* Manager.LastVersion, and the version pullAndApplyPolicy reports: the last
\* applied one, else the cached one
ReportVersion(lastVersion, cache) ==
  IF lastVersion = 0 THEN CachedPolicy(cache).version ELSE lastVersion

\* ------------------------------------------------------------------------
\* enroll.Manager
\* ------------------------------------------------------------------------
Credentials(id, token, version) == [id |-> id, token |-> token, version |-> version]

NoCredentials == Credentials(0, 0, 0)

\* content of the credential file: {credentials, policy}
Stored(c, policy) == [cred |-> c, policy |-> policy]

\* Manager.saveCredentials through util.WriteSecretFile
saveCredentials(file, c, policy, diskOK) ==
  IF diskOK THEN File(Stored(c, policy)) ELSE file

\* Manager.Persist, the entry point of the policy loop's rotation path
Persist(file, c, policy, diskOK) == saveCredentials(file, c, policy, diskOK)

\* Manager.loadEnrollmentConfig with the mutant that asks for the token only
loadEnrollmentConfigTokenOnly(handoff) ==
  IF ~Exists(handoff) THEN [err |-> "notexist", cred |-> NoCredentials, policy |-> EmptyEnvelope]
  ELSE IF handoff[1].device_token = 0
       THEN [err |-> "missing credentials", cred |-> NoCredentials, policy |-> EmptyEnvelope]
       ELSE [err |-> "nil",
             cred |-> Credentials(handoff[1].device_id, handoff[1].device_token, handoff[1].policy.version),
             policy |-> handoff[1].policy]

\* Manager.loadEnrollmentConfig on the handoff file {device_id, device_token, policy}
loadEnrollmentConfig(handoff) ==
  IF ~Exists(handoff) THEN [err |-> "notexist", cred |-> NoCredentials, policy |-> EmptyEnvelope]
  ELSE IF handoff[1].device_id = 0 \/ handoff[1].device_token = 0
       THEN [err |-> "missing credentials", cred |-> NoCredentials, policy |-> EmptyEnvelope]
       ELSE [err |-> "nil",
             cred |-> Credentials(handoff[1].device_id, handoff[1].device_token, handoff[1].policy.version),
             policy |-> handoff[1].policy]

\* Manager.clearEnrollmentConfig: the handoff file is removed
clearEnrollmentConfig(handoff, removeOK) == IF removeOK THEN NoFile ELSE handoff

\* Manager.EnsureEnrollment with the mutant that does not look at the
\* credential file
EnsureEnrollmentIgnoresStored(file, handoff, resp, diskOK, removeOK) ==
  LET cfg == loadEnrollmentConfig(handoff)
      result(err, c, policy, f, h, called) ==
        [err |-> err, cred |-> c, policy |-> policy, credFile |-> f, handoffFile |-> h,
         enrollCalled |-> called]
  IN IF cfg.err = "nil" /\ cfg.cred.token # 0
     THEN IF ~diskOK
          THEN result("write credentials", NoCredentials, EmptyEnvelope, file, handoff, FALSE)
          ELSE IF ~removeOK
          THEN result("remove enrollment config", NoCredentials, EmptyEnvelope,
                      saveCredentials(file, cfg.cred, cfg.policy, diskOK),
                      clearEnrollmentConfig(handoff, removeOK), FALSE)
          ELSE result("nil", cfg.cred, cfg.policy,
                      saveCredentials(file, cfg.cred, cfg.policy, diskOK),
                      clearEnrollmentConfig(handoff, removeOK), FALSE)
     ELSE IF cfg.err # "nil" /\ cfg.err # "notexist"
     THEN result(cfg.err, NoCredentials, EmptyEnvelope, file, handoff, FALSE)
     ELSE IF resp.err # "nil"
     THEN result("enroll device", NoCredentials, EmptyEnvelope, file, handoff, TRUE)
     ELSE IF ~diskOK
     THEN result("write credentials", NoCredentials, EmptyEnvelope, file, handoff, TRUE)
     ELSE LET c == Credentials(resp.device_id, resp.device_token, resp.policy.version)
          IN result("nil", c, resp.policy, saveCredentials(file, c, resp.policy, diskOK),
                    handoff, TRUE)

\* Manager.EnsureEnrollment.  resp is the answer of the backend enroll
\* endpoint (err "nil" or an error), diskOK whether the credential write
\* succeeds, removeOK whether the handoff file can be removed.  The result
\* carries the files as the call leaves them.
EnsureEnrollment(file, handoff, resp, diskOK, removeOK) ==
  LET cfg == loadEnrollmentConfig(handoff)
      result(err, c, policy, f, h, called) ==
        [err |-> err, cred |-> c, policy |-> policy, credFile |-> f, handoffFile |-> h,
         enrollCalled |-> called]
  IN IF Exists(file) /\ file[1].cred.token # 0
     THEN result("nil", file[1].cred, file[1].policy, file, handoff, FALSE)
     ELSE IF cfg.err = "nil" /\ cfg.cred.token # 0
     THEN IF ~diskOK
          THEN result("write credentials", NoCredentials, EmptyEnvelope, file, handoff, FALSE)
          ELSE IF ~removeOK
          THEN result("remove enrollment config", NoCredentials, EmptyEnvelope,
                      saveCredentials(file, cfg.cred, cfg.policy, diskOK),
                      clearEnrollmentConfig(handoff, removeOK), FALSE)
          ELSE result("nil", cfg.cred, cfg.policy,
                      saveCredentials(file, cfg.cred, cfg.policy, diskOK),
                      clearEnrollmentConfig(handoff, removeOK), FALSE)
     ELSE IF cfg.err # "nil" /\ cfg.err # "notexist"
     THEN result(cfg.err, NoCredentials, EmptyEnvelope, file, handoff, FALSE)
     ELSE IF resp.err # "nil"
     THEN result("enroll device", NoCredentials, EmptyEnvelope, file, handoff, TRUE)
     ELSE IF ~diskOK
     THEN result("write credentials", NoCredentials, EmptyEnvelope, file, handoff, TRUE)
     ELSE LET c == Credentials(resp.device_id, resp.device_token, resp.policy.version)
          IN result("nil", c, resp.policy, saveCredentials(file, c, resp.policy, diskOK),
                    handoff, TRUE)

\* ------------------------------------------------------------------------
\* events.Queue
\* ------------------------------------------------------------------------
\* Queue.Append: read, extend, rewrite; nothing is written for no events
QueueAppend(queue, events, diskOK) ==
  IF Len(events) = 0 THEN queue
  ELSE IF diskOK THEN queue \o events ELSE queue

\* Queue.Replace: rewrite the file with the given events
QueueReplace(queue, events, diskOK) ==
  IF diskOK THEN events ELSE queue

\* Queue.Load
QueueLoad(queue) == queue

\* Agent.appendEvents: an Append whose error is only logged
appendEvents(queue, events, diskOK) == QueueAppend(queue, events, diskOK)

\* what the disk can answer to appendEvents: with no events the queue file
\* is not touched
DiskAnswers(events) == IF Len(events) = 0 THEN {TRUE} ELSE BOOLEAN

\* ------------------------------------------------------------------------
\* The control plane
\* ------------------------------------------------------------------------
\* the envelope the control plane issues for version v, carrying token tok
\* (0: no rotation)
Issued(v, tok) == PolicyEnvelope(v, v, v, tok)

\* a well-formed signature that was made over another document
OtherDoc(v) == (v % MaxVersion) + 1

\* answers of the enroll endpoint: device 1 with token 1 and no policy, the
\* offered policy, or a policy with a bad signature; or a failure.  A
\* control plane that has published nothing (v = 0) answers without policy.
EnrollAnswers(v) ==
  {[err |-> "nil", device_id |-> 1, device_token |-> 1, policy |-> p] :
      p \in IF v = 0 THEN {EmptyEnvelope}
            ELSE {EmptyEnvelope, Issued(v, 0), PolicyEnvelope(v, SigMissing, v, 0)}}
    \cup {[err |-> "unreachable", device_id |-> 0, device_token |-> 0, policy |-> EmptyEnvelope]}

\* handoff files an installer may leave behind
Handoffs ==
  {NoFile,
   File([device_id |-> 1, device_token |-> 1, policy |-> Issued(1, 0)]),
   File([device_id |-> 1, device_token |-> 0, policy |-> Issued(1, 0)])}

\* credential files found at a start: none, one with an empty token, one of
\* an earlier enrollment
EnrollFiles ==
  {NoFile,
   File(Stored(Credentials(2, 0, 0), EmptyEnvelope)),
   File(Stored(Credentials(2, 2, 1), Issued(1, 0)))}

\* handoff files with and without device_id and device_token
EnrollHandoffs ==
  {NoFile} \cup
  {File([device_id |-> id, device_token |-> tok, policy |-> Issued(1, 0)]) :
      id \in 0..1, tok \in 0..1}

\* no EnsureEnrollment call made
NoEnrollCall ==
  [n |-> 0, file |-> NoFile, handoff |-> NoFile,
   result |-> [err |-> "nil", cred |-> NoCredentials, policy |-> EmptyEnvelope,
               credFile |-> NoFile, handoffFile |-> NoFile, enrollCalled |-> FALSE]]

\* envelopes the running agent is answered with: the issued one with or
\* without a token, or one without a signature
AgentAnswers(v) ==
  {Issued(v, tok) : tok \in 0..MaxToken} \cup {PolicyEnvelope(v, SigMissing, v, 0)}

\* ------------------------------------------------------------------------
\* The loop driver's schedule (Agent.backoffLoop), durations in seconds
\* ------------------------------------------------------------------------
\* a loop's nominal interval and the two retry durations of the configuration
LoopConfigs ==
  [interval : 0..MaxSeconds, retryBackoff : 0..MaxSeconds, retryMaxDelay : 0..MaxSeconds]

\* backoffLoop: interval <= 0 becomes one second
Interval(cfg) == IF cfg.interval <= 0 THEN 1 ELSE cfg.interval

\* backoffLoop: retryBackoff <= 0 becomes one second
BaseBackoff(cfg) == IF cfg.retryBackoff <= 0 THEN 1 ELSE cfg.retryBackoff

\* backoffLoop: retryMaxDelay <= 0 becomes sixteen times the base
MaxDelay(cfg) == IF cfg.retryMaxDelay <= 0 THEN BaseBackoff(cfg) * 16 ELSE cfg.retryMaxDelay

\* backoffLoop: the delay after a failed tick
NextDelay(delay, maxDelay) ==
  IF delay < maxDelay
  THEN IF delay * 2 > maxDelay THEN maxDelay ELSE delay * 2
  ELSE delay

\* ------------------------------------------------------------------------
\* State
\* ------------------------------------------------------------------------
\* ------------------------------------------------------------------------
\* Contexts and the errors of the loops
\* ------------------------------------------------------------------------
\* Run: loops := 5
loops == 5

\* errors.Is(err, context.Canceled): context.Canceled itself or an error
\* wrapping it ("perform request: context canceled")
IsCanceled(err) == err \in {"Canceled", "wrappedCanceled"}

\* a context's Err() after a cancellation with cause err: the first cause
\* stays
CancelWith(current, err) == IF current = "nil" THEN err ELSE current

\* what a tick's work can return under a context whose Err() is err: nil,
\* an error of its own, the per-tick timeout, or the done context's error
\* wrapped by the API client
WorkErrors(err) ==
  {"nil", "error", "wrappedDeadlineExceeded"} \cup
    (IF err = "Canceled" THEN {"wrappedCanceled"} ELSE {})

\* a loop about to run a tick: as backoffLoop enters it (wait is zero, the
\* first tick runs at once) and after each wait
StartedLoop == [pc |-> "work", sleep |-> "zero", err |-> "nil", ret |-> "nil"]

\* ------------------------------------------------------------------------
\* updates.Manager: rollback
\* ------------------------------------------------------------------------
\* Checksums of deployments are the strings 1..MaxChecksum, the channel of
\* the host is the string after them, 0 is the empty string.
ChannelName == MaxChecksum + 1

\* updates.Status as EnsureRollback uses it, with the outcome of the
\* status command (available) and of the rollback.target probe (pending:
\* "active", "inactive" or "error")
Statuses ==
  [available : BOOLEAN, NeedsRollback : BOOLEAN, pending : {"active", "inactive", "error"},
   BootedChecksum : 0..MaxChecksum, Channel : {0, ChannelName},
   RollbackTarget : 0..MaxChecksum]

\* events.NewEvent of the update manager: the type and the payload's target
\* (0 when the payload has no target)
UpdateEvent(type, target) == [type |-> type, target |-> target]

\* EnsureRollback: needsRollback after the status and the probe
NeedsRollback(status) == status.NeedsRollback \/ status.pending = "active"

\* EnsureRollback: identifier, the booted checksum, else the channel
Identifier(status) ==
  IF status.BootedChecksum # 0 THEN status.BootedChecksum ELSE status.Channel

\* EnsureRollback with the mutant that does not look at the last attempt
EnsureRollbackAlways(last, status, rollbackOK) ==
  IF ~status.available
  THEN [last |-> last, invoked |-> FALSE, events |-> <<>>, err |-> "status"]
  ELSE IF ~NeedsRollback(status)
  THEN [last |-> 0, invoked |-> FALSE, events |-> <<>>, err |-> "nil"]
  ELSE IF ~rollbackOK
  THEN [last |-> Identifier(status), invoked |-> TRUE,
        events |-> <<UpdateEvent("update.rollback.failure", 0)>>, err |-> "rollback"]
  ELSE [last |-> Identifier(status), invoked |-> TRUE,
        events |-> <<UpdateEvent("update.rollback.triggered", status.RollbackTarget)>>,
        err |-> "nil"]

\* EnsureRollback with the mutant that leaves the target out of the event
EnsureRollbackNoTarget(last, status, rollbackOK) ==
  IF ~status.available
  THEN [last |-> last, invoked |-> FALSE, events |-> <<>>, err |-> "status"]
  ELSE IF ~NeedsRollback(status)
  THEN [last |-> 0, invoked |-> FALSE, events |-> <<>>, err |-> "nil"]
  ELSE IF Identifier(status) # 0 /\ Identifier(status) = last
  THEN [last |-> last, invoked |-> FALSE, events |-> <<>>, err |-> "nil"]
  ELSE IF ~rollbackOK
  THEN [last |-> Identifier(status), invoked |-> TRUE,
        events |-> <<UpdateEvent("update.rollback.failure", 0)>>, err |-> "rollback"]
  ELSE [last |-> Identifier(status), invoked |-> TRUE,
        events |-> <<UpdateEvent("update.rollback.triggered", 0)>>, err |-> "nil"]

\* EnsureRollback with the mutant that remembers the identifier once the
\* rollback command has succeeded
EnsureRollbackRemembersSuccess(last, status, rollbackOK) ==
  IF ~status.available
  THEN [last |-> last, invoked |-> FALSE, events |-> <<>>, err |-> "status"]
  ELSE IF ~NeedsRollback(status)
  THEN [last |-> 0, invoked |-> FALSE, events |-> <<>>, err |-> "nil"]
  ELSE IF Identifier(status) # 0 /\ Identifier(status) = last
  THEN [last |-> last, invoked |-> FALSE, events |-> <<>>, err |-> "nil"]
  ELSE IF ~rollbackOK
  THEN [last |-> last, invoked |-> TRUE,
        events |-> <<UpdateEvent("update.rollback.failure", 0)>>, err |-> "rollback"]
  ELSE [last |-> Identifier(status), invoked |-> TRUE,
        events |-> <<UpdateEvent("update.rollback.triggered", status.RollbackTarget)>>,
        err |-> "nil"]

\* EnsureRollback on a manager whose lastRollbackAttempt is last, the host
\* answering status and the rollback command succeeding or not: the new
\* lastRollbackAttempt, whether the rollback command was invoked, the events
\* and the error returned
EnsureRollback(last, status, rollbackOK) ==
  IF ~status.available
  THEN [last |-> last, invoked |-> FALSE, events |-> <<>>, err |-> "status"]
  ELSE IF ~NeedsRollback(status)
  THEN [last |-> 0, invoked |-> FALSE, events |-> <<>>, err |-> "nil"]
  ELSE IF Identifier(status) # 0 /\ Identifier(status) = last
  THEN [last |-> last, invoked |-> FALSE, events |-> <<>>, err |-> "nil"]
  ELSE IF ~rollbackOK
  THEN [last |-> Identifier(status), invoked |-> TRUE,
        events |-> <<UpdateEvent("update.rollback.failure", 0)>>, err |-> "rollback"]
  ELSE [last |-> Identifier(status), invoked |-> TRUE,
        events |-> <<UpdateEvent("update.rollback.triggered", status.RollbackTarget)>>,
        err |-> "nil"]

\* the statuses the state loop's EnsureRollback meets: no probe, no
\* target, one booted checksum
StateLoopStatuses ==
  [available : BOOLEAN, NeedsRollback : BOOLEAN, pending : {"inactive"},
   BootedChecksum : 0..1, Channel : {0, ChannelName}, RollbackTarget : {0}]

\* no EnsureRollback call made yet
NoRollbackCall ==
  [n |-> 0, status |-> [available |-> FALSE, NeedsRollback |-> FALSE, pending |-> "inactive",
                        BootedChecksum |-> 0, Channel |-> 0, RollbackTarget |-> 0],
   invoked |-> FALSE, events |-> <<>>, err |-> "nil"]

\* ------------------------------------------------------------------------
\* updates.Manager: maintenance windows and Apply
\* ------------------------------------------------------------------------
\* Times are seconds since the Sunday 00:00:00 that starts week 0, in the
\* zone of the manager's clock.  A maintenance-window entry is written as
\* its parse: kind "window" with the weekdays parseDays returns (none when
\* DAYSPEC is omitted or "*") and start and end in minutes of the day, kind
\* "blank" for an entry that is empty after trimming, kind "invalid" for an
\* entry parseMaintenanceWindow rejects.
minutesPerDay == 24 * 60

minutesPerWeek == 7 * minutesPerDay

Time(day, hour, minute, second) == ((day * 24 + hour) * 60 + minute) * 60 + second

\* time.Time.Truncate(time.Minute)
TruncateMinute(t) == t - (t % 60)

\* minuteOfWeek
minuteOfWeek(t) == (TruncateMinute(t) \div 60) % minutesPerWeek

Window(days, start, end) == [kind |-> "window", days |-> days, start |-> start, end |-> end]

BlankEntry == [kind |-> "blank", days |-> <<>>, start |-> 0, end |-> 0]

InvalidEntry == [kind |-> "invalid", days |-> <<>>, start |-> 0, end |-> 0]

\* parseClock: "HH:MM" as minutes of the day
Clock(hour, minute) == hour * 60 + minute

\* parseDays on a range "A-B": the days from A on, round the week, up to B
RECURSIVE DayRange(_, _)
DayRange(start, end) ==
  IF start = end THEN <<start>> ELSE <<start>> \o DayRange((start + 1) % 7, end)

\* buildSegments: time.Sunday .. time.Saturday when no day is given
AllDays == <<0, 1, 2, 3, 4, 5, 6>>

\* buildSegments: the segments of the days from the k-th on
RECURSIVE SegmentsFrom(_, _, _, _)
SegmentsFrom(days, k, start, end) ==
  IF k > Len(days) THEN <<>>
  ELSE LET base == days[k] * minutesPerDay
           nextDay == (days[k] + 1) % 7
           segs == IF start = end
                   THEN <<[start |-> base, end |-> base + minutesPerDay]>>
                   ELSE IF end > start
                   THEN <<[start |-> base + start, end |-> base + end]>>
                   ELSE <<[start |-> base + start, end |-> base + minutesPerDay],
                          [start |-> nextDay * minutesPerDay,
                           end |-> nextDay * minutesPerDay + end]>>
       IN segs \o SegmentsFrom(days, k + 1, start, end)

\* buildSegments with the mutant that ends a window at midnight
buildSegmentsUntilMidnight(days, start, end) ==
  LET all == IF Len(days) = 0 THEN AllDays ELSE days
  IN [k \in 1..Len(all) |->
        [start |-> all[k] * minutesPerDay + start,
         end |-> IF end > start THEN all[k] * minutesPerDay + end
                 ELSE (all[k] + 1) * minutesPerDay]]

buildSegments(days, start, end) ==
  SegmentsFrom(IF Len(days) = 0 THEN AllDays ELSE days, 1, start, end)

\* parseMaintenanceWindows from the k-th entry on: the first error ends it
RECURSIVE ParseFrom(_, _)
ParseFrom(entries, k) ==
  IF k > Len(entries) THEN [err |-> "nil", segments |-> <<>>]
  ELSE IF entries[k].kind = "blank" THEN ParseFrom(entries, k + 1)
  ELSE IF entries[k].kind = "invalid" THEN [err |-> "parse", segments |-> <<>>]
  ELSE LET rest == ParseFrom(entries, k + 1)
       IN IF rest.err # "nil" THEN rest
          ELSE [err |-> "nil",
                segments |-> buildSegments(entries[k].days, entries[k].start, entries[k].end)
                               \o rest.segments]

parseMaintenanceWindows(entries) == ParseFrom(entries, 1)

\* maintenanceAllowsNow with the mutant that allows no time when the
\* policy names no window
maintenanceAllowsNowStrict(segments, now) ==
  \E k \in 1..Len(segments) :
    minuteOfWeek(now) >= segments[k].start /\ minuteOfWeek(now) < segments[k].end

maintenanceAllowsNow(segments, now) ==
  \/ Len(segments) = 0
  \/ \E k \in 1..Len(segments) :
       minuteOfWeek(now) >= segments[k].start /\ minuteOfWeek(now) < segments[k].end

\* nextMaintenanceWindow: bestDelta after the segments from the k-th on
RECURSIVE BestDelta(_, _, _, _)
BestDelta(segments, k, minute, best) ==
  IF k > Len(segments) THEN best
  ELSE LET start == segments[k].start
           delta == IF start > minute THEN start - minute
                    ELSE minutesPerWeek - minute + start
       IN BestDelta(segments, k + 1, minute,
                    IF delta # 0 /\ delta < best THEN delta ELSE best)

\* nextMaintenanceWindow with the mutant that wraps to the start of the week
\* after without taking off the minutes gone
nextMaintenanceWindowWrapsLate(segments, now) ==
  IF Len(segments) = 0 THEN [ok |-> FALSE, time |-> 0]
  ELSE LET base == TruncateMinute(now)
           minute == minuteOfWeek(base)
           deltas == {IF segments[k].start > minute THEN segments[k].start - minute
                      ELSE minutesPerWeek + segments[k].start :
                        k \in 1..Len(segments)}
           bestDelta == CHOOSE d \in deltas : \A o \in deltas : d <= o
       IN [ok |-> TRUE, time |-> base + bestDelta * 60]

\* nextMaintenanceWindow with the mutant that takes a start at the minute
\* of now for the next one
nextMaintenanceWindowAtOrAfter(segments, now) ==
  IF Len(segments) = 0 THEN [ok |-> FALSE, time |-> 0]
  ELSE LET base == TruncateMinute(now)
           minute == minuteOfWeek(base)
           deltas == {IF segments[k].start >= minute THEN segments[k].start - minute
                      ELSE minutesPerWeek - minute + segments[k].start :
                        k \in 1..Len(segments)}
           bestDelta == CHOOSE d \in deltas : \A o \in deltas : d <= o
       IN [ok |-> TRUE, time |-> base + bestDelta * 60]

nextMaintenanceWindow(segments, now) ==
  IF Len(segments) = 0 THEN [ok |-> FALSE, time |-> 0]
  ELSE LET base == TruncateMinute(now)
           bestDelta == BestDelta(segments, 1, minuteOfWeek(base), minutesPerWeek * 2)
       IN IF bestDelta = minutesPerWeek * 2 THEN [ok |-> FALSE, time |-> 0]
          ELSE [ok |-> TRUE, time |-> base + bestDelta * 60]

\* events.NewEvent of the reboot gate: the type and the payload
RebootEvent(type, payload) == [type |-> type, payload |-> payload]

\* Manager.Apply on an update policy.  host gives what the commands answer:
\* statusOK and status (the first fetchStatus), rebaseOK, fresh (the second
\* fetchStatus: "error", or reboot "pending" or "clear"), rebootOK,
\* and now (m.now).  The result: the events, the error, Result's
\* RebootRequired and which commands were invoked.
UpdatesApply(policy, host) ==
  LET none == [made |-> FALSE, RebootRequired |-> FALSE, events |-> <<>>, err |-> "nil",
               rebased |-> FALSE, rebooted |-> FALSE]
      parsed == parseMaintenanceWindows(policy.Maintenance)
      rebase == policy.Channel # 0 /\ host.status.Channel # policy.Channel
      afterRebase ==
        IF ~rebase THEN [none EXCEPT !.RebootRequired = host.status.RebootRequired]
        ELSE [none EXCEPT
                !.rebased = TRUE,
                !.events = <<RebootEvent("update.apply.success", [channel |-> policy.Channel])>>,
                !.RebootRequired = IF host.fresh = "error" THEN host.status.RebootRequired
                                   ELSE host.fresh = "pending"]
  IN IF ~host.statusOK THEN [none EXCEPT !.err = "status"]
     ELSE IF parsed.err # "nil"
     THEN [none EXCEPT !.RebootRequired = host.status.RebootRequired,
                       !.events = <<RebootEvent("update.reboot.failure", [error |-> "parse"])>>,
                       !.err = "parse"]
     ELSE IF rebase /\ ~host.rebaseOK
     THEN [none EXCEPT !.RebootRequired = host.status.RebootRequired,
                       !.rebased = TRUE,
                       !.events = <<RebootEvent("update.apply.failure",
                                                [channel |-> policy.Channel])>>,
                       !.err = "rebase"]
     ELSE IF ~(policy.RebootRequired /\ afterRebase.RebootRequired) THEN afterRebase
     ELSE IF maintenanceAllowsNow(parsed.segments, host.now)
     THEN IF ~host.rebootOK
          THEN [afterRebase EXCEPT
                  !.rebooted = TRUE,
                  !.events = @ \o <<RebootEvent("update.reboot.failure", [error |-> "reboot"])>>,
                  !.err = "reboot"]
          ELSE [afterRebase EXCEPT
                  !.rebooted = TRUE,
                  !.events = @ \o <<RebootEvent("update.reboot.triggered",
                                                [time |-> host.now])>>]
     ELSE LET next == nextMaintenanceWindow(parsed.segments, host.now)
          IN [afterRebase EXCEPT
                !.events = @ \o <<RebootEvent("update.reboot.deferred",
                                              IF next.ok THEN [scheduled_for |-> next.time]
                                              ELSE [reason |-> "no_window"])>>]

\* the maintenance-window entries policies are built from:
\* "Mon-Fri 02:00-03:00", "Sun 23:00-01:00", "Sat 23:00-01:00",
\* "02:00-03:00", "Mon 04:00-04:00", "" and an entry that does not parse
WindowEntries ==
  {Window(<<1, 2, 3, 4, 5>>, 120, 180), Window(<<0>>, 1380, 60), Window(<<6>>, 1380, 60),
   Window(<<>>, 120, 180), Window(<<1>>, 240, 240), BlankEntry, InvalidEntry}

\* window entries as policies write them: "Mon-Fri 02:00-03:00",
\* "Sun 23:00-01:00", "Sat 23:00-01:00", "02:00-03:00", "Mon 04:00-04:00",
\* "Fri-Mon 22:00-23:00", "Tue 23:00-00:00"
WrittenWindows ==
  {Window(DayRange(1, 5), Clock(2, 0), Clock(3, 0)),
   Window(<<0>>, Clock(23, 0), Clock(1, 0)),
   Window(<<6>>, Clock(23, 0), Clock(1, 0)),
   Window(<<>>, Clock(2, 0), Clock(3, 0)),
   Window(<<1>>, Clock(4, 0), Clock(4, 0)),
   Window(DayRange(5, 1), Clock(22, 0), Clock(23, 0)),
   Window(<<2>>, Clock(23, 0), Clock(0, 0))}

\* lists of one to MaxWindows such entries
WindowLists == UNION {[1..n -> WrittenWindows] : n \in 1..MaxWindows}

\* the clock readings tried on them: every day of week 0 at twelve times
WindowClock ==
  {Time(d, c[1], c[2], c[3]) :
     d \in 0..6,
     c \in {<<0, 0, 0>>, <<0, 30, 0>>, <<0, 59, 59>>, <<1, 0, 0>>, <<2, 0, 0>>, <<2, 30, 15>>,
            <<2, 59, 0>>, <<3, 0, 0>>, <<4, 0, 0>>, <<22, 59, 59>>, <<23, 0, 0>>,
            <<23, 30, 59>>}}

\* no window list evaluated
NoWindowResult ==
  [made |-> FALSE, segments |-> <<>>, allowed |-> FALSE, next |-> [ok |-> FALSE, time |-> 0]]

\* api.UpdatePolicy: the channel (0 when not set), the reboot flag and up
\* to MaxWindows maintenance-window entries
UpdatePolicies ==
  [Channel : 0..2, RebootRequired : BOOLEAN,
   Maintenance : UNION {[1..n -> WindowEntries] : n \in 0..MaxWindows}]

\* the clock readings tried: Sunday, Monday and Saturday at 00:30:00,
\* 02:00:00, 02:30:15, 03:00:00, 04:00:00 and 23:30:59
ClockReadings ==
  {Time(d, c[1], c[2], c[3]) :
     d \in {0, 1, 6},
     c \in {<<0, 30, 0>>, <<2, 0, 0>>, <<2, 30, 15>>, <<3, 0, 0>>, <<4, 0, 0>>, <<23, 30, 59>>}}

\* what the host answers to one Apply; the answers of commands Apply does
\* not reach are left at one value
UpdateHosts(policy) ==
  LET all == [statusOK : BOOLEAN, status : [Channel : {1}, RebootRequired : BOOLEAN],
              rebaseOK : BOOLEAN, fresh : {"error", "pending", "clear"}, rebootOK : BOOLEAN,
              now : ClockReadings]
      rebase(h) == policy.Channel # 0 /\ h.status.Channel # policy.Channel
  IN {h \in all :
        /\ (~rebase(h) => h.rebaseOK /\ h.fresh = "error")
        /\ (~h.rebaseOK => h.fresh = "error")
        /\ (~h.statusOK => h.rebaseOK /\ h.fresh = "error" /\ h.rebootOK
                            /\ ~h.status.RebootRequired)}

\* no Apply call made
NoUpdateResult ==
  [made |-> FALSE, RebootRequired |-> FALSE, events |-> <<>>, err |-> "nil",
   rebased |-> FALSE, rebooted |-> FALSE]

\* ------------------------------------------------------------------------
\* The durable queues byte by byte: events.Queue and state.Queue
\* ------------------------------------------------------------------------
\* What a queue file holds: nothing (the file is missing), zero bytes, the
\* JSON text null, the JSON array of some items, or bytes that are not the
\* JSON of a list of items.  Items (events, snapshots) are numbered.
MissingFile == [kind |-> "missing", items |-> <<>>]

ZeroBytes == [kind |-> "zero", items |-> <<>>]

JsonNull == [kind |-> "null", items |-> <<>>]

Malformed == [kind |-> "malformed", items |-> <<>>]

\* the JSON array of some items
JsonArray(items) == [kind |-> "json", items |-> items]

\* Go's nil slice, told apart from the empty list <<>> (a slice of no
\* elements that is not nil)
NilSlice == [i \in {0} |-> 0]

\* the elements of a slice
Elements(slice) == IF slice = NilSlice THEN <<>> ELSE slice

\* json.MarshalIndent of a slice: null for the nil slice, an array otherwise
MarshalIndent(slice) == IF slice = NilSlice THEN JsonNull ELSE JsonArray(slice)

\* readLocked (events.Queue.Load has the same body): the items and the
\* error
readLocked(file) ==
  IF file.kind \in {"missing", "zero"} THEN [err |-> "nil", items |-> <<>>]
  ELSE IF file.kind = "malformed" THEN [err |-> "decode", items |-> <<>>]
  ELSE [err |-> "nil", items |-> file.items]

\* writeLocked: the file afterwards and the error; a failed write or rename
\* leaves the file as it was
writeLocked(file, items, diskOK) ==
  IF diskOK THEN [err |-> "nil", file |-> MarshalIndent(items)]
  ELSE [err |-> "write", file |-> file]

\* Queue.Load
Load(file) == readLocked(file)

\* Queue.Append with the mutant that writes the new items last first
AppendReversed(queue, file, items, diskOK) ==
  IF queue = "events" /\ Len(items) = 0 THEN [err |-> "nil", file |-> file]
  ELSE LET existing == readLocked(file)
       IN IF existing.err # "nil" THEN [err |-> existing.err, file |-> file]
          ELSE writeLocked(file,
                           existing.items \o [i \in 1..Len(items) |-> items[Len(items) + 1 - i]],
                           diskOK)

\* Queue.Append with the mutant that writes the new items in front
AppendInFront(queue, file, items, diskOK) ==
  IF queue = "events" /\ Len(items) = 0 THEN [err |-> "nil", file |-> file]
  ELSE LET existing == readLocked(file)
       IN IF existing.err # "nil" THEN [err |-> existing.err, file |-> file]
          ELSE writeLocked(file, items \o existing.items, diskOK)

\* Queue.Append with the mutant that goes on after a decode error
AppendIgnoresDecodeError(queue, file, items, diskOK) ==
  IF queue = "events" /\ Len(items) = 0 THEN [err |-> "nil", file |-> file]
  ELSE writeLocked(file, readLocked(file).items \o items, diskOK)

\* Queue.Append of events.Queue (any number of events; none returns at
\* once) and of state.Queue (one snapshot)
AppendItems(queue, file, items, diskOK) ==
  IF queue = "events" /\ Len(items) = 0 THEN [err |-> "nil", file |-> file]
  ELSE LET existing == readLocked(file)
       IN IF existing.err # "nil" THEN [err |-> existing.err, file |-> file]
          ELSE writeLocked(file, existing.items \o items, diskOK)

\* Queue.Replace
Replace(file, items, diskOK) == writeLocked(file, items, diskOK)

\* the item lists a caller hands to a queue
ItemLists == UNION {[1..n -> 1..MaxItem] : n \in 0..2}

\* the slices a caller hands to Replace: a list of items or nil
ReplaceSlices == ItemLists \cup {NilSlice}

\* no queue call made
NoQueueCall ==
  [n |-> 0, op |-> "none", items |-> <<>>, pre |-> MissingFile, err |-> "nil",
   loaded |-> <<>>, restarted |-> FALSE]

\* no login tick made
NoLoginTick == [events |-> <<>>, appendErr |-> "nil", err |-> "nil"]

\* ------------------------------------------------------------------------
\* attestation.Manager
\* ------------------------------------------------------------------------
\* The PCRs of a quote are the sequence of their values in the order of
\* their indexes; a digest is a number and 0 the empty string; the clock
\* counts half hours from 1 and 0 is the zero time.
minInterval == 2

\* NewManager
NewAttestManager == [lastDigest |-> 0, lastAttempt |-> 0]

\* the number whose digits in base MaxPcrValue + 1 are the first k values
RECURSIVE DigitsOf(_, _)
DigitsOf(pcrs, k) ==
  IF k = 0 THEN 0 ELSE DigitsOf(pcrs, k - 1) * (MaxPcrValue + 1) + pcrs[k]

\* hashPCRs: the empty string for no PCRs, otherwise the SHA-256 of the
\* PCRs in the order of their keys (one digest per list of values)
hashPCRs(pcrs) == IF Len(pcrs) = 0 THEN 0 ELSE DigitsOf(pcrs, Len(pcrs))

\* Manager.ready with the mutant that asks for more than the interval
readyAfterInterval(m, now) == m.lastAttempt = 0 \/ now - m.lastAttempt > minInterval

\* Manager.ready
ready(m, now) == m.lastAttempt = 0 \/ now - m.lastAttempt >= minInterval

AttestEvent(type) == [type |-> type]

\* what Attest returns and leaves: the manager, the events, the error,
\* whether the PCRs were read and whether AttestBoot was called
AttestResult(m, events, err, read, submitted) ==
  [mgr |-> m, events |-> events, err |-> err, read |-> read, submitted |-> submitted]

\* Manager.Attest with the mutant that submits whatever the last digest is
AttestWithoutDedup(m, now, host) ==
  IF host.tpm = "none" THEN AttestResult(m, <<>>, "nil", FALSE, FALSE)
  ELSE IF ~ready(m, now) THEN AttestResult(m, <<>>, "nil", FALSE, FALSE)
  ELSE IF host.tpm = "unavailable" THEN AttestResult(m, <<>>, "nil", FALSE, FALSE)
  ELSE IF host.tpm = "open fails" THEN AttestResult(m, <<>>, "open tpm", FALSE, FALSE)
  ELSE IF host.tpm = "ak fails"
  THEN AttestResult(m, <<AttestEvent("attestation.boot.failure")>>, "create ak", FALSE, FALSE)
  ELSE IF host.tpm = "quote fails"
  THEN AttestResult(m, <<AttestEvent("attestation.boot.failure")>>, "attest platform",
                    FALSE, FALSE)
  ELSE IF ~host.submitOK
  THEN AttestResult(m, <<AttestEvent("attestation.boot.failure")>>, "attest boot", TRUE, TRUE)
  ELSE AttestResult([lastDigest |-> hashPCRs(host.pcrs), lastAttempt |-> now],
                    <<AttestEvent("attestation.boot.success")>>, "nil", TRUE, TRUE)

\* Manager.Attest with the mutant that records the time of a refused
\* submission
AttestRecordsRefusal(m, now, host) ==
  IF host.tpm = "none" THEN AttestResult(m, <<>>, "nil", FALSE, FALSE)
  ELSE IF ~ready(m, now) THEN AttestResult(m, <<>>, "nil", FALSE, FALSE)
  ELSE IF host.tpm = "unavailable" THEN AttestResult(m, <<>>, "nil", FALSE, FALSE)
  ELSE IF host.tpm = "open fails" THEN AttestResult(m, <<>>, "open tpm", FALSE, FALSE)
  ELSE IF host.tpm = "ak fails"
  THEN AttestResult(m, <<AttestEvent("attestation.boot.failure")>>, "create ak", FALSE, FALSE)
  ELSE IF host.tpm = "quote fails"
  THEN AttestResult(m, <<AttestEvent("attestation.boot.failure")>>, "attest platform",
                    FALSE, FALSE)
  ELSE IF hashPCRs(host.pcrs) = m.lastDigest
  THEN AttestResult([m EXCEPT !.lastAttempt = now], <<>>, "nil", TRUE, FALSE)
  ELSE IF ~host.submitOK
  THEN AttestResult([m EXCEPT !.lastAttempt = now],
                    <<AttestEvent("attestation.boot.failure")>>, "attest boot", TRUE, TRUE)
  ELSE AttestResult([lastDigest |-> hashPCRs(host.pcrs), lastAttempt |-> now],
                    <<AttestEvent("attestation.boot.success")>>, "nil", TRUE, TRUE)

\* Manager.Attest at time now on a host: its device nodes and TPM, the PCRs
\* of the quote and whether the backend acknowledges a submission
Attest(m, now, host) ==
  IF host.tpm = "none" THEN AttestResult(m, <<>>, "nil", FALSE, FALSE)
  ELSE IF ~ready(m, now) THEN AttestResult(m, <<>>, "nil", FALSE, FALSE)
  ELSE IF host.tpm = "unavailable" THEN AttestResult(m, <<>>, "nil", FALSE, FALSE)
  ELSE IF host.tpm = "open fails" THEN AttestResult(m, <<>>, "open tpm", FALSE, FALSE)
  ELSE IF host.tpm = "ak fails"
  THEN AttestResult(m, <<AttestEvent("attestation.boot.failure")>>, "create ak", FALSE, FALSE)
  ELSE IF host.tpm = "quote fails"
  THEN AttestResult(m, <<AttestEvent("attestation.boot.failure")>>, "attest platform",
                    FALSE, FALSE)
  ELSE IF hashPCRs(host.pcrs) = m.lastDigest
  THEN AttestResult([m EXCEPT !.lastAttempt = now], <<>>, "nil", TRUE, FALSE)
  ELSE IF ~host.submitOK
  THEN AttestResult(m, <<AttestEvent("attestation.boot.failure")>>, "attest boot", TRUE, TRUE)
  ELSE AttestResult([lastDigest |-> hashPCRs(host.pcrs), lastAttempt |-> now],
                    <<AttestEvent("attestation.boot.success")>>, "nil", TRUE, TRUE)

\* the PCR lists a quote can carry: none, or two PCRs
PcrReadings == {<<>>} \cup [1..2 -> 1..MaxPcrValue]

\* the hosts Attest runs on; a host whose TPM does not answer carries no
\* PCRs and no backend
AttestHosts ==
  {[tpm |-> t, pcrs |-> <<>>, submitOK |-> TRUE] :
      t \in {"none", "unavailable", "open fails", "ak fails", "quote fails"}}
    \cup [tpm : {"ok"}, pcrs : PcrReadings, submitOK : BOOLEAN]

\* no Attest call made
NoAttestCall ==
  [n |-> 0, pre |-> NewAttestManager, now |-> 0,
   host |-> [tpm |-> "none", pcrs |-> <<>>, submitOK |-> TRUE], attested |-> <<>>,
   result |-> AttestResult(NewAttestManager, <<>>, "nil", FALSE, FALSE)]

\* ------------------------------------------------------------------------
\* File writes step by step
\* ------------------------------------------------------------------------
\* the code that writes persisted files, and how each writes: "tmp" is
\* os.WriteFile(path + ".tmp") followed by os.Rename over the path, "direct"
\* is os.WriteFile on the path itself
Writers ==
  {"events.Queue.writeLocked", "state.Queue.writeLocked", "policy.Manager.persist",
   "util.WriteSecretFile", "browser.Manager.Apply", "security.writeUSBGuardRules",
   "security.configureSSH", "network.Manager.Apply"}

WriteIdiom(writer) == IF writer = "network.Manager.Apply" THEN "direct" ELSE "tmp"

\* the code that also removes the file it writes: security.Manager.Apply
\* calls removeUSBGuardRules when the policy turns USBGuard off, and
\* network.Manager.Apply removes the profiles the policy does not name
Removers == {"security.writeUSBGuardRules", "network.Manager.Apply"}

\* a file: absent, or the first len blocks of document doc; a document is
\* MaxBlocks blocks long
AbsentFile == [exists |-> FALSE, doc |-> 0, len |-> 0]

Written(doc, len) == [exists |-> TRUE, doc |-> doc, len |-> len]

Complete(doc) == Written(doc, MaxBlocks)

VARIABLES
  credFile,       \* the credential file (cfg.DeviceTokenPath)
  policyCache,    \* the policy cache file (cfg.PolicyCachePath)
  eventQueue,     \* the event queue file (cfg.EventQueuePath)
  handoffFile,    \* the enrollment handoff file (cfg.Enrollment.ConfigPath)
  enforced,       \* host state: the policy document each adapter enforced last
  serverVersion,  \* the version the control plane offers
  pc,             \* Agent.Run: "boot", "enrolled", "running", "exited"
  cred,           \* Agent.credentials
  initialPolicy,  \* the policy EnsureEnrollment returned
  lastVersion,    \* policy.Manager.lastVersion
  lastErr,        \* state.Collector.lastErr
  policyPc,       \* position of the policy tick
  envelope,       \* the envelope the policy tick pulled
  policyResult,   \* how the last policy tick (or the initial apply) ended
  flushPc,        \* position of the event-flush tick
  pending,        \* the events flushEvents loaded
  bearer,         \* token of the latest request since the last envelope tick ended
  rotated,        \* history: the rotation (token, version) the policy tick was handed last
  applied,        \* history: versions whose apply completed on this host
  otherEvents,    \* events the state, login and attestation loops handed to appendEvents
  stateTick,      \* position of the state loop's tick, and the error it is to record
  attestTick,     \* position of the attestation tick, the token it read, its events
  mgr,            \* a policy.Manager driven call by call: cache, lastVersion, host
  call,           \* the latest Manager.Apply call: its input, pre-state and result
  loopCfg,        \* a loop's configuration (interval, retryBackoff, retryMaxDelay)
  loopPc,         \* backoffLoop: "top" of the loop body, or "work"
  wait,           \* backoffLoop: wait
  delay,          \* backoffLoop: delay
  slept,          \* the time waited before the tick at hand
  failures,       \* consecutive failed ticks so far
  rootErr,        \* Err() of the context handed to Agent.Run
  ctxErr,         \* Err() of the context Run derives and shares with the loops
  loopState,      \* the five loops: position, the wait chosen, the error returned
  errCh,          \* Run: errCh, the errors sent and not yet received
  runErr,         \* Run: runErr
  round,          \* Run: i, the select rounds done
  runPc,          \* Run: "select", "wait" (wg.Wait) or "returned"
  runResult,      \* what Run returned
  lastRollbackAttempt, \* updates.Manager.lastRollbackAttempt
  rb,             \* the latest EnsureRollback call: status found, commands, result
  attempts,       \* history: rollback commands attempted per booted checksum
  upIn,           \* updates.Manager.Apply: the policy and the host's answers
  upOut,          \* updates.Manager.Apply: the result and the commands invoked
  qName,          \* which queue: "events" (events.Queue) or "state" (state.Queue)
  qFile,          \* the queue's file
  qCall,          \* the latest call on the queue: operation, argument, result
  writer,         \* the code writing the file
  target,         \* the file at the path
  tmpFile,        \* the file at path + ".tmp"
  wrPc,           \* the write: "idle", "open", "write", "rename" or "stale"
  wrDoc,          \* the document of the latest write
  wrPre,          \* the file at the path when the latest operation began
  wrOp,           \* the latest operation on the path: "none", "write" or "remove"
  stFile,         \* the state queue's file
  stPc,           \* reportState: "idle", "load", "send" or "replace"
  stPending,      \* reportState: the snapshots of its latest Load
  stErr,          \* what the latest state tick returned
  snapshots,      \* snapshots collected so far
  appended,       \* the snapshots whose Append returned nil, in order
  acked,          \* the snapshots whose ReportState returned nil, in order
  evFile,         \* the event queue's file
  flPc,           \* flushEvents: "idle", "send" or "replace"
  flPending,      \* flushEvents: the events of its Load
  flErr,          \* what the latest event-flush tick returned
  collected,      \* login events collected so far
  login,          \* the latest login tick: events, Append's error, the tick's error
  queued,         \* the events whose Append returned nil, in order
  batches,        \* the batches whose ReportEvents returned nil, in order
  requests,       \* ReportEvents requests made
  enFile,         \* the credential file EnsureEnrollment is called on
  enHandoff,      \* the handoff file EnsureEnrollment is called on
  enCall,         \* the latest EnsureEnrollment call: the files before it and its result
  enrollRequests, \* requests made to the backend enroll endpoint
  atMgr,          \* attestation.Manager: lastDigest, lastAttempt
  atNow,          \* the clock of the attestation manager, in half hours
  atCall,         \* the latest Attest call: manager and acknowledged PCRs before it, host, result
  atPrev,         \* the PCRs read by the reading call before the latest one, if any
  attested,       \* the PCRs of the latest acknowledged submission, if any
  wIn,            \* the maintenance-window entries of a policy and a reading of the clock
  wOut,           \* their segments, maintenanceAllowsNow and nextMaintenanceWindow
  slPc,           \* stateLoop's tick: "idle" or "report" (before reportState)
  slLast,         \* updates.Manager.lastRollbackAttempt under the state loop
  slTick,         \* the latest state tick: its status, EnsureRollback's result, its steps
  slEvents,       \* the event queue's file under the state loop
  slStates,       \* the state queue's file under the state loop
  slSent,         \* the snapshots the server acknowledged, in order
  slLastErr,      \* the collector's last error under the state loop
  slFailed,       \* identifiers whose rollback command failed since the last clearing
  fqFile,         \* the event queue's file under appends of several loops
  fqPc,           \* flushEvents beside them: "idle" or "loaded"
  fqApplies,      \* policy applies whose events were handed to appendEvents
  fqOthers        \* events the other loops handed to appendEvents

agentVars == <<credFile, policyCache, eventQueue, handoffFile, enforced, serverVersion, pc, cred,
               initialPolicy, lastVersion, lastErr, policyPc, envelope, policyResult, flushPc,
               pending, bearer, rotated, applied, otherEvents, stateTick,
               attestTick>>

managerVars == <<mgr, call>>

loopVars == <<loopCfg, loopPc, wait, delay, slept, failures>>

runVars == <<rootErr, ctxErr, loopState, errCh, runErr, round, runPc, runResult>>

rollbackVars == <<lastRollbackAttempt, rb, attempts>>

updateVars == <<upIn, upOut>>

queueVars == <<qName, qFile, qCall>>

writeVars == <<writer, target, tmpFile, wrPc, wrDoc, wrPre, wrOp>>

stateVars == <<stFile, stPc, stPending, stErr, snapshots, appended, acked>>

eventsVars == <<evFile, flPc, flPending, flErr, collected, login, queued, batches, requests>>

enrollVars == <<enFile, enHandoff, enCall, enrollRequests>>

attestVars == <<atMgr, atNow, atCall, atPrev, attested>>

windowVars == <<wIn, wOut>>

stateLoopVars == <<slPc, slLast, slTick, slEvents, slStates, slSent, slLastErr, slFailed>>

fanOutVars == <<fqFile, fqPc, fqApplies, fqOthers>>

sliceVars == <<runVars, rollbackVars, updateVars, queueVars, writeVars, stateVars, eventsVars, enrollVars, attestVars, windowVars, stateLoopVars, fanOutVars>>

coreVars == <<agentVars, managerVars, loopVars>>

notRunVars == <<coreVars, rollbackVars, updateVars, queueVars, writeVars, stateVars, eventsVars, enrollVars, attestVars, windowVars, stateLoopVars, fanOutVars>>

notRollbackVars == <<coreVars, runVars, updateVars, queueVars, writeVars, stateVars, eventsVars, enrollVars, attestVars, windowVars, stateLoopVars, fanOutVars>>

notUpdateVars == <<coreVars, runVars, rollbackVars, queueVars, writeVars, stateVars, eventsVars, enrollVars, attestVars, windowVars, stateLoopVars, fanOutVars>>

notQueueVars == <<coreVars, runVars, rollbackVars, updateVars, writeVars, stateVars, eventsVars, enrollVars, attestVars, windowVars, stateLoopVars, fanOutVars>>

notWriteVars == <<coreVars, runVars, rollbackVars, updateVars, queueVars, stateVars, eventsVars, enrollVars, attestVars, windowVars, stateLoopVars, fanOutVars>>

notStateVars == <<coreVars, runVars, rollbackVars, updateVars, queueVars, writeVars, eventsVars, enrollVars, attestVars, windowVars, stateLoopVars, fanOutVars>>

notEventsVars == <<coreVars, runVars, rollbackVars, updateVars, queueVars, writeVars, stateVars, enrollVars, attestVars, windowVars, stateLoopVars, fanOutVars>>

notEnrollVars == <<coreVars, runVars, rollbackVars, updateVars, queueVars, writeVars, stateVars, eventsVars, attestVars, windowVars, stateLoopVars, fanOutVars>>

notAttestVars == <<coreVars, runVars, rollbackVars, updateVars, queueVars, writeVars, stateVars, eventsVars, enrollVars, windowVars, stateLoopVars, fanOutVars>>

notWindowVars == <<coreVars, runVars, rollbackVars, updateVars, queueVars, writeVars, stateVars, eventsVars, enrollVars, attestVars, stateLoopVars, fanOutVars>>

notStateLoopVars == <<coreVars, runVars, rollbackVars, updateVars, queueVars, writeVars, stateVars, eventsVars, enrollVars, attestVars, windowVars, fanOutVars>>

notFanOutVars == <<coreVars, runVars, rollbackVars, updateVars, queueVars, writeVars, stateVars, eventsVars, enrollVars, attestVars, windowVars, stateLoopVars>>

vars == <<agentVars, managerVars, loopVars, sliceVars>>

diskVars == <<credFile, policyCache, eventQueue, handoffFile>>

policyVars == <<policyPc, envelope, policyResult>>

flushVars == <<flushPc, pending>>

tickVars == <<stateTick, attestTick>>

\* a policy.Manager on an empty disk and an untouched host
NewManager == [cache |-> NoFile, lastVersion |-> 0, enforced |-> [a \in Adapters |-> 0]]

\* no Apply call made yet; n counts the calls
NoCall == [made |-> FALSE, n |-> 0]

\* no token rotation was handed to the policy loop
NoRotation == [from |-> 0, token |-> 0, version |-> 0]

\* the state loop between ticks, about to run reportState, and about to
\* hand err to SetLastError
StateIdle == [pc |-> "idle", err |-> ""]
StateReport == [pc |-> "report", err |-> ""]
StateSet(err) == [pc |-> "set", err |-> err]

\* the attestation loop between ticks, in Attest with the token it was
\* called with, and about to hand the events of Attest to appendEvents
AttestIdle == [pc |-> "idle", token |-> 0, events |-> <<>>]
Attesting(token) == [pc |-> "attest", token |-> token, events |-> <<>>]
AttestAppend(events) == [pc |-> "append", token |-> 0, events |-> events]

\* the process image right after agent.New, with whatever handoff file the
\* installer left
AgentInit ==
  /\ credFile = NoFile
  /\ policyCache = NoFile
  /\ eventQueue = <<>>
  /\ handoffFile \in Handoffs
  /\ enforced = [a \in Adapters |-> 0]
  /\ serverVersion = 0
  /\ pc = "boot"
  /\ cred = NoCredentials
  /\ initialPolicy = EmptyEnvelope
  /\ lastVersion = 0
  /\ lastErr = ""
  /\ policyPc = "idle"
  /\ envelope = EmptyEnvelope
  /\ policyResult = "none"
  /\ flushPc = "idle"
  /\ pending = <<>>
  /\ bearer = 0
  /\ rotated = NoRotation
  /\ applied = {}
  /\ otherEvents = 0
  /\ stateTick = StateIdle
  /\ attestTick = AttestIdle

\* policy.New
ManagerInit ==
  /\ mgr = NewManager
  /\ call = NoCall

\* backoffLoop up to the loop: wait is zero and delay the base
LoopInit ==
  /\ loopCfg \in LoopConfigs
  /\ loopPc = "top"
  /\ wait = 0
  /\ delay = BaseBackoff(loopCfg)
  /\ slept = 0
  /\ failures = 0

\* the loop driver with the configuration left at zero, not running
LoopParked ==
  /\ loopCfg = [interval |-> 0, retryBackoff |-> 0, retryMaxDelay |-> 0]
  /\ loopPc = "top"
  /\ wait = 0
  /\ delay = BaseBackoff(loopCfg)
  /\ slept = 0
  /\ failures = 0

\* Run before the loops are started
RunInit ==
  /\ rootErr = "nil"
  /\ ctxErr = "nil"
  /\ loopState = [i \in 1..loops |-> StartedLoop]
  /\ errCh = <<>>
  /\ runErr = "nil"
  /\ round = 0
  /\ runPc = "select"
  /\ runResult = "nil"

\* updates.NewManager, no EnsureRollback call made yet
RollbackInit ==
  /\ lastRollbackAttempt = 0
  /\ rb = NoRollbackCall
  /\ attempts = [x \in 1..MaxChecksum |-> 0]

\* no update policy handed to updates.Manager.Apply
UpdateParked ==
  /\ upIn = [policy |-> [Channel |-> 0, RebootRequired |-> FALSE, Maintenance |-> <<>>],
             host |-> [statusOK |-> FALSE, status |-> [Channel |-> 1, RebootRequired |-> FALSE],
                       rebaseOK |-> TRUE, fresh |-> "error", rebootOK |-> TRUE,
                       now |-> Time(0, 0, 30, 0)]]
  /\ upOut = NoUpdateResult

\* a queue on a path where no file is
QueueParked ==
  /\ qName = "events"
  /\ qFile = MissingFile
  /\ qCall = NoQueueCall

\* no file written
WriteParked ==
  /\ writer = "events.Queue.writeLocked"
  /\ target = AbsentFile
  /\ tmpFile = AbsentFile
  /\ wrPc = "idle"
  /\ wrDoc = 0
  /\ wrPre = AbsentFile
  /\ wrOp = "none"

\* no state tick run
StateParked ==
  /\ stFile = MissingFile
  /\ stPc = "idle"
  /\ stPending = <<>>
  /\ stErr = "nil"
  /\ snapshots = 0
  /\ appended = <<>>
  /\ acked = <<>>

\* no login tick and no event-flush tick run
EventsParked ==
  /\ evFile = MissingFile
  /\ flPc = "idle"
  /\ flPending = <<>>
  /\ flErr = "nil"
  /\ collected = 0
  /\ login = NoLoginTick
  /\ queued = <<>>
  /\ batches = <<>>
  /\ requests = 0

\* no EnsureEnrollment call made
EnrollParked ==
  /\ enFile = NoFile
  /\ enHandoff = NoFile
  /\ enCall = NoEnrollCall
  /\ enrollRequests = 0

\* no Attest call made
AttestParked ==
  /\ atMgr = NewAttestManager
  /\ atNow = 1
  /\ atCall = NoAttestCall
  /\ atPrev = <<>>
  /\ attested = <<>>

\* no window list evaluated
WindowParked ==
  /\ wIn = [entries |-> <<>>, now |-> 0]
  /\ wOut = NoWindowResult

\* no state tick made
NoStateTick ==
  [n |-> 0,
   status |-> [available |-> FALSE, NeedsRollback |-> FALSE, pending |-> "inactive",
               BootedChecksum |-> 0, Channel |-> 0, RollbackTarget |-> 0],
   pre |-> 0, failed |-> {}, states |-> MissingFile, eventsOK |-> TRUE,
   rb |-> [last |-> 0, invoked |-> FALSE, events |-> <<>>, err |-> "nil"],
   log |-> <<>>, err |-> "nil", done |-> FALSE]

\* no state tick of the state-loop slice made
StateLoopParked ==
  /\ slPc = "idle"
  /\ slLast = 0
  /\ slTick = NoStateTick
  /\ slEvents = MissingFile
  /\ slStates = MissingFile
  /\ slSent = <<>>
  /\ slLastErr = ""
  /\ slFailed = {}

\* no append made beside the flush
FanOutParked ==
  /\ fqFile = MissingFile
  /\ fqPc = "idle"
  /\ fqApplies = 0
  /\ fqOthers = 0

SlicesParked ==
  RunInit /\ RollbackInit /\ UpdateParked /\ QueueParked /\ WriteParked /\ StateParked
    /\ EventsParked
    /\ EnrollParked
    /\ AttestParked
    /\ WindowParked
    /\ StateLoopParked
    /\ FanOutParked

\* The agent's specification reads and writes none of the variables of the
\* other specifications: they rest at one value in it
OthersParked ==
  /\ loopCfg = 0
  /\ loopPc = 0
  /\ wait = 0
  /\ delay = 0
  /\ slept = 0
  /\ failures = 0
  /\ rootErr = 0
  /\ ctxErr = 0
  /\ loopState = 0
  /\ errCh = 0
  /\ runErr = 0
  /\ round = 0
  /\ runPc = 0
  /\ runResult = 0
  /\ lastRollbackAttempt = 0
  /\ rb = 0
  /\ attempts = 0
  /\ upIn = 0
  /\ upOut = 0
  /\ qName = 0
  /\ qFile = 0
  /\ qCall = 0
  /\ writer = 0
  /\ target = 0
  /\ tmpFile = 0
  /\ wrPc = 0
  /\ wrDoc = 0
  /\ wrPre = 0
  /\ wrOp = 0
  /\ stFile = 0
  /\ stPc = 0
  /\ stPending = 0
  /\ stErr = 0
  /\ snapshots = 0
  /\ appended = 0
  /\ acked = 0
  /\ evFile = 0
  /\ flPc = 0
  /\ flPending = 0
  /\ flErr = 0
  /\ collected = 0
  /\ login = 0
  /\ queued = 0
  /\ batches = 0
  /\ requests = 0
  /\ enFile = 0
  /\ enHandoff = 0
  /\ enCall = 0
  /\ enrollRequests = 0
  /\ atMgr = 0
  /\ atNow = 0
  /\ atCall = 0
  /\ atPrev = 0
  /\ attested = 0
  /\ wIn = 0
  /\ wOut = 0
  /\ slPc = 0
  /\ slLast = 0
  /\ slTick = 0
  /\ slEvents = 0
  /\ slStates = 0
  /\ slSent = 0
  /\ slLastErr = 0
  /\ slFailed = 0
  /\ fqFile = 0
  /\ fqPc = 0
  /\ fqApplies = 0
  /\ fqOthers = 0

Init == AgentInit /\ ManagerInit /\ OthersParked

ManagerState == [cache |-> policyCache, lastVersion |-> lastVersion, enforced |-> enforced]

\* ------------------------------------------------------------------------
\* Agent.Run up to the start of the loops
\* ------------------------------------------------------------------------
\* Run: EnsureEnrollment and the assignment of a.credentials
RunEnsureEnrollment ==
  /\ pc = "boot"
  /\ \E resp \in EnrollAnswers(serverVersion), diskOK \in BOOLEAN, removeOK \in BOOLEAN :
       LET r == EnsureEnrollment(credFile, handoffFile, resp, diskOK, removeOK)
       IN /\ credFile' = r.credFile
          /\ handoffFile' = r.handoffFile
          /\ IF r.err # "nil"
             THEN pc' = "exited" /\ UNCHANGED <<cred, initialPolicy>>
             ELSE pc' = "enrolled" /\ cred' = r.cred /\ initialPolicy' = r.policy
  /\ UNCHANGED <<policyCache, eventQueue, enforced, serverVersion, lastVersion, lastErr,
                 policyVars, flushVars, bearer, rotated, applied, otherEvents,
                 tickVars, managerVars, loopVars, sliceVars>>

\* Run: the initial policy is applied when it has a version; an error ends Run
RunInitialApply ==
  /\ pc = "enrolled"
  /\ initialPolicy' = EmptyEnvelope
  /\ IF initialPolicy.version = 0
     THEN /\ pc' = "running"
          /\ UNCHANGED <<policyCache, eventQueue, enforced, lastVersion, lastErr, policyResult,
                         applied>>
     ELSE \E host \in AgentHosts, diskOK \in BOOLEAN, queueOK \in BOOLEAN :
            LET r == Apply(ManagerState, initialPolicy, host, diskOK)
            IN /\ Len(eventQueue) + Len(r.events) <= MaxQueue
               /\ policyCache' = r.cache
               /\ lastVersion' = r.lastVersion
               /\ enforced' = r.enforced
               /\ eventQueue' = appendEvents(eventQueue, r.events, queueOK)
               /\ IF r.err # "nil"
                  THEN /\ lastErr' = r.err
                       /\ pc' = "exited"
                       /\ policyResult' = "initialfailed"
                       /\ UNCHANGED applied
                  ELSE /\ pc' = "running"
                       /\ policyResult' = "initial"
                       /\ applied' = applied \cup {initialPolicy.version}
                       /\ UNCHANGED lastErr
  /\ UNCHANGED <<credFile, handoffFile, serverVersion, cred, policyPc, envelope,
                 flushVars, bearer, rotated, otherEvents, tickVars, managerVars, loopVars, sliceVars>>

\* ------------------------------------------------------------------------
\* The policy loop: policyLoop and pullAndApplyPolicy
\* ------------------------------------------------------------------------
\* what a string can be, besides the old and the new value, when it is read
\* beside its assignment or assigned by two goroutines at once: a header
\* made of the pointer of one value and the length of the other
TornString == "torn"

\* Collector.SetLastError called by a loop of the running agent: what the
\* field holds afterwards.  The policy loop and the state loop both assign
\* it with no lock, so beside the other loop's call a torn string can stay.
SetLastError(err) == {err, TornString}

\* the end of a tick that handled an envelope, with policyLoop's SetLastError
EndEnvelopeTick(result, err) ==
  /\ policyPc' = "idle"
  /\ envelope' = EmptyEnvelope
  /\ policyResult' = result
  /\ lastErr' \in SetLastError(err)
  /\ bearer' = 0
  /\ rotated' = IF envelope.token # 0 /\ envelope.token # rotated.from
                THEN [rotated EXCEPT !.token = envelope.token, !.version = envelope.version]
                ELSE NoRotation

\* PullPolicy fails (transport error, timeout, status >= 400)
PullPolicyError ==
  /\ pc = "running" /\ policyPc = "idle"
  /\ bearer' = cred.token
  /\ policyResult' = "pullfailed"
  /\ lastErr' \in SetLastError("pull")
  /\ UNCHANGED <<diskVars, enforced, serverVersion, pc, cred, initialPolicy, lastVersion,
                 policyPc, envelope, flushVars, rotated, applied, otherEvents,
                 tickVars, managerVars, loopVars, sliceVars>>

\* a 304 answer taken for a failed pull
PullPolicyNotModifiedFails ==
  /\ pc = "running" /\ policyPc = "idle"
  /\ ReportVersion(lastVersion, policyCache) = serverVersion
  /\ bearer' = cred.token
  /\ policyResult' = "notmodified"
  /\ lastErr' = "pull"
  /\ UNCHANGED <<diskVars, enforced, serverVersion, pc, cred, initialPolicy, lastVersion,
                 policyPc, envelope, flushVars, rotated, applied, otherEvents,
                 tickVars, managerVars, loopVars, sliceVars>>

\* PullPolicy is answered 304 (the control plane offers the version the
\* request reported): the tick succeeds
PullPolicyNotModified ==
  /\ pc = "running" /\ policyPc = "idle"
  /\ ReportVersion(lastVersion, policyCache) = serverVersion
  /\ bearer' = cred.token
  /\ policyResult' = "notmodified"
  /\ lastErr' \in SetLastError("")
  /\ UNCHANGED <<diskVars, enforced, serverVersion, pc, cred, initialPolicy, lastVersion,
                 policyPc, envelope, flushVars, rotated, applied, otherEvents,
                 tickVars, managerVars, loopVars, sliceVars>>

\* PullPolicy is answered with an envelope: the control plane has published
\* a version other than the one the request reported
PullPolicyEnvelope ==
  /\ pc = "running" /\ policyPc = "idle"
  /\ serverVersion > 0
  /\ ReportVersion(lastVersion, policyCache) # serverVersion
  /\ bearer' = cred.token
  /\ \E answer \in AgentAnswers(serverVersion) : envelope' = answer
  /\ rotated' = [NoRotation EXCEPT !.from = cred.token]
  /\ policyPc' = "apply"
  /\ UNCHANGED <<diskVars, enforced, serverVersion, pc, cred, initialPolicy, lastVersion,
                 lastErr, policyResult, flushVars, applied, otherEvents, tickVars, managerVars,
                 loopVars, sliceVars>>

\* what Manager.Apply can return for the envelope of the tick, whatever the
\* host and the disk of the cache do
ApplyResults ==
  {Apply(ManagerState, envelope, host, diskOK) : host \in AgentHosts, diskOK \in BOOLEAN}

\* pullAndApplyPolicy: Apply, appendEvents, and the return on error
PolicyApply ==
  /\ pc = "running" /\ policyPc = "apply"
  /\ \E r \in ApplyResults, queueOK \in BOOLEAN :
       /\ Len(eventQueue) + Len(r.events) <= MaxQueue
       /\ policyCache' = r.cache
       /\ lastVersion' = r.lastVersion
       /\ enforced' = r.enforced
       /\ eventQueue' = appendEvents(eventQueue, r.events, queueOK)
       /\ IF r.err # "nil"
          THEN EndEnvelopeTick("applyfailed", r.err) /\ UNCHANGED applied
          ELSE /\ policyPc' = "rotate"
               /\ applied' = applied \cup {envelope.version}
               /\ UNCHANGED <<envelope, policyResult, lastErr, bearer, rotated>>
  /\ UNCHANGED <<credFile, handoffFile, serverVersion, pc, cred, initialPolicy,
                 flushVars, otherEvents, tickVars, managerVars, loopVars, sliceVars>>

\* pullAndApplyPolicy: a token that differs from the current one is adopted
PolicyRotateToken ==
  /\ pc = "running" /\ policyPc = "rotate"
  /\ cred' = IF envelope.token # 0 /\ envelope.token # cred.token
             THEN [cred EXCEPT !.token = envelope.token]
             ELSE cred
  /\ policyPc' = "version"
  /\ UNCHANGED <<diskVars, enforced, serverVersion, pc, initialPolicy, lastVersion, lastErr,
                 envelope, policyResult, flushVars, bearer, rotated, applied, otherEvents,
                 tickVars, managerVars, loopVars, sliceVars>>

\* a policy tick that leaves the version of the credentials as it was
PolicySkipVersion ==
  /\ pc = "running" /\ policyPc = "version"
  /\ policyPc' = "persist"
  /\ UNCHANGED <<diskVars, enforced, serverVersion, pc, cred, initialPolicy, lastVersion,
                 lastErr, envelope, policyResult, flushVars, bearer, rotated, applied,
                 otherEvents, tickVars, managerVars, loopVars, sliceVars>>

\* pullAndApplyPolicy: a.credentials.Version = envelope.Version
PolicySetVersion ==
  /\ pc = "running" /\ policyPc = "version"
  /\ cred' = [cred EXCEPT !.version = envelope.version]
  /\ policyPc' = "persist"
  /\ UNCHANGED <<diskVars, enforced, serverVersion, pc, initialPolicy, lastVersion, lastErr,
                 envelope, policyResult, flushVars, bearer, rotated, applied, otherEvents,
                 tickVars, managerVars, loopVars, sliceVars>>

\* pullAndApplyPolicy with the mutant that puts the stored credentials back
\* in memory when the write fails
PolicyPersistRestoresMemory ==
  /\ pc = "running" /\ policyPc = "persist"
  /\ \E diskOK \in BOOLEAN :
       /\ credFile' = Persist(credFile, cred, envelope, diskOK)
       /\ IF diskOK
          THEN EndEnvelopeTick("applied", "") /\ UNCHANGED cred
          ELSE /\ EndEnvelopeTick("persistfailed", "persist credentials")
               /\ cred' = IF Exists(credFile) THEN credFile[1].cred ELSE cred
  /\ UNCHANGED <<policyCache, eventQueue, handoffFile, enforced, serverVersion, pc,
                 initialPolicy, lastVersion, flushVars, applied, otherEvents, tickVars, managerVars,
                 loopVars, sliceVars>>

\* pullAndApplyPolicy: the credential file is rewritten; policyLoop records
\* the outcome of the tick
PolicyPersist ==
  /\ pc = "running" /\ policyPc = "persist"
  /\ \E diskOK \in BOOLEAN :
       /\ credFile' = Persist(credFile, cred, envelope, diskOK)
       /\ IF diskOK
          THEN EndEnvelopeTick("applied", "")
          ELSE EndEnvelopeTick("persistfailed", "persist credentials")
  /\ UNCHANGED <<policyCache, eventQueue, handoffFile, enforced, serverVersion, pc, cred,
                 initialPolicy, lastVersion, flushVars, applied, otherEvents, tickVars, managerVars,
                 loopVars, sliceVars>>

\* ------------------------------------------------------------------------
\* The event loop: eventLoop and flushEvents
\* ------------------------------------------------------------------------
\* flushEvents: Load; with nothing loaded the tick ends
FlushLoad ==
  /\ pc = "running" /\ flushPc = "idle"
  /\ pending' = QueueLoad(eventQueue)
  /\ flushPc' = IF Len(QueueLoad(eventQueue)) = 0 THEN "idle" ELSE "send"
  /\ UNCHANGED <<diskVars, enforced, serverVersion, pc, cred, initialPolicy, lastVersion,
                 lastErr, policyVars, bearer, rotated, applied, otherEvents,
                 tickVars, managerVars, loopVars, sliceVars>>

\* what a string read beside its assignment can be besides the old and the
\* new value: a header made of the pointer of one and the length of the
\* other
TornToken == MaxToken + 1

\* a read of a.credentials.DeviceToken by a loop other than the policy loop.
\* No lock orders it with the assignment in pullAndApplyPolicy: beside that
\* assignment it gives the old token, the new one or a torn one.  (A read
\* that faults ends the process, which SpecRestart follows.)
ReadDeviceToken ==
  IF policyPc = "rotate" /\ envelope.token # 0 /\ envelope.token # cred.token
  THEN {cred.token, envelope.token, TornToken}
  ELSE {cred.token}

\* flushEvents: ReportEvents with the batch, acknowledged or not
FlushSend ==
  /\ pc = "running" /\ flushPc = "send"
  /\ \E token \in ReadDeviceToken : bearer' = token
  /\ \E ack \in BOOLEAN :
       IF ack
       THEN flushPc' = "replace" /\ UNCHANGED pending
       ELSE flushPc' = "idle" /\ pending' = <<>>
  /\ UNCHANGED <<diskVars, enforced, serverVersion, pc, cred, initialPolicy, lastVersion,
                 lastErr, policyVars, rotated, applied, otherEvents, tickVars, managerVars, loopVars, sliceVars>>

\* flushEvents: Replace with the empty list after the acknowledgement;
\* pending is the acknowledged batch
FlushReplace ==
  /\ pc = "running" /\ flushPc = "replace"
  /\ \E diskOK \in BOOLEAN : eventQueue' = QueueReplace(eventQueue, <<>>, diskOK)
  /\ flushPc' = "idle"
  /\ pending' = <<>>
  /\ UNCHANGED <<credFile, policyCache, handoffFile, enforced, serverVersion, pc, cred,
                 initialPolicy, lastVersion, lastErr, policyVars, bearer, rotated, applied,
                 otherEvents, tickVars, managerVars, loopVars, sliceVars>>

\* ------------------------------------------------------------------------
\* The state, login and attestation loops beside the policy and event loops
\* ------------------------------------------------------------------------
\* what EnsureRollback can return to the state loop, whatever the update
\* manager remembers and the host answers
RollbackResults ==
  {[events |-> EnsureRollback(last, status, rollbackOK).events,
    err |-> EnsureRollback(last, status, rollbackOK).err] :
     last \in {0, 1}, status \in StateLoopStatuses, rollbackOK \in BOOLEAN}

\* stateLoop's tick up to reportState: EnsureRollback, and appendEvents
\* with its events.  After an error SetLastError is next, otherwise
\* reportState.
StateLoopTick ==
  /\ pc = "running" /\ stateTick = StateIdle
  /\ \E r \in RollbackResults :
       /\ otherEvents + Len(r.events) <= MaxOtherEvents
       /\ otherEvents' = otherEvents + Len(r.events)
       /\ \E queueOK \in DiskAnswers(r.events) :
            eventQueue' = appendEvents(eventQueue, r.events, queueOK)
       /\ stateTick' = IF r.err # "nil" THEN StateSet("ensure rollback") ELSE StateReport
  /\ UNCHANGED <<credFile, policyCache, handoffFile, enforced, serverVersion, pc, cred,
                 initialPolicy, lastVersion, lastErr, policyVars, flushVars, bearer, rotated,
                 applied, attestTick, managerVars, loopVars, sliceVars>>

\* reportState returns an error without a request: Snapshot, the state
\* queue's Append or a Load of it failed
ReportStateFails ==
  /\ pc = "running" /\ stateTick = StateReport
  /\ stateTick' = StateSet("report state")
  /\ UNCHANGED <<diskVars, enforced, serverVersion, pc, cred, initialPolicy, lastVersion,
                 lastErr, policyVars, flushVars, bearer, rotated, applied, 
                 otherEvents, attestTick, managerVars, loopVars, sliceVars>>

\* how a turn of reportState's loop can end: the request or the Replace
\* after it failed, the next Load finds another snapshot, or none
ReportStateResults == {"failed", "more", "done"}

\* reportState: a ReportState request, which bears a.credentials.DeviceToken
\* as read for this request, and the Replace and Load after it
ReportStateRequest ==
  /\ pc = "running" /\ stateTick = StateReport
  /\ \E token \in ReadDeviceToken : bearer' = token
  /\ \E result \in ReportStateResults :
       stateTick' = IF result = "failed" THEN StateSet("report state")
                    ELSE IF result = "more" THEN StateReport
                    ELSE StateSet("")
  /\ UNCHANGED <<diskVars, enforced, serverVersion, pc, cred, initialPolicy, lastVersion,
                 lastErr, policyVars, flushVars, rotated, applied, otherEvents,
                 attestTick, managerVars, loopVars, sliceVars>>

\* stateLoop's tick ends: SetLastError with the error of EnsureRollback or
\* of reportState, or with nil
StateSetLastError ==
  /\ pc = "running" /\ stateTick.pc = "set"
  /\ lastErr' \in SetLastError(stateTick.err)
  /\ stateTick' = StateIdle
  /\ UNCHANGED <<diskVars, enforced, serverVersion, pc, cred, initialPolicy, lastVersion,
                 policyVars, flushVars, bearer, rotated, applied, otherEvents,
                 attestTick, managerVars, loopVars, sliceVars>>

\* what Collect hands to the login loop: nothing (it failed or found no new
\* login) or the events of the logins found
LoginResults == {<<>>, <<NewEvent("user.login", 0)>>}

\* loginLoop's tick: Collect, and appendEvents with the events collected
LoginLoopTick ==
  /\ pc = "running"
  /\ \E events \in LoginResults :
       /\ otherEvents + Len(events) <= MaxOtherEvents
       /\ otherEvents' = otherEvents + Len(events)
       /\ \E queueOK \in DiskAnswers(events) :
            eventQueue' = appendEvents(eventQueue, events, queueOK)
  /\ UNCHANGED <<credFile, policyCache, handoffFile, enforced, serverVersion, pc, cred,
                 initialPolicy, lastVersion, lastErr, policyVars, flushVars, bearer, rotated,
                 applied, tickVars, managerVars, loopVars, sliceVars>>

\* what Attest can return to the attestation loop, whatever the manager
\* remembers and the TPM and the backend answer
AttestResults ==
  {[events |-> Attest(NewAttestManager, 0, host).events,
    submitted |-> Attest(NewAttestManager, 0, host).submitted] : host \in AttestHosts}

\* attestationLoop's tick begins: the arguments of Attest are evaluated,
\* a.credentials.DeviceToken among them
AttestationLoopTick ==
  /\ pc = "running" /\ attestTick = AttestIdle
  /\ \E token \in ReadDeviceToken : attestTick' = Attesting(token)
  /\ UNCHANGED <<diskVars, enforced, serverVersion, pc, cred, initialPolicy, lastVersion,
                 lastErr, policyVars, flushVars, bearer, rotated, applied, 
                 otherEvents, stateTick, managerVars, loopVars, sliceVars>>

\* Attest: the TPM work and the submission, which bears the token the
\* tick began with.  Without events the tick ends here, appendEvents
\* returning at once.
AttestSubmit ==
  /\ pc = "running" /\ attestTick.pc = "attest"
  /\ \E r \in AttestResults :
       /\ otherEvents + Len(r.events) <= MaxOtherEvents
       /\ otherEvents' = otherEvents + Len(r.events)
       /\ bearer' = IF r.submitted THEN attestTick.token ELSE bearer
       /\ attestTick' = IF Len(r.events) = 0 THEN AttestIdle ELSE AttestAppend(r.events)
  /\ UNCHANGED <<diskVars, enforced, serverVersion, pc, cred, initialPolicy, lastVersion,
                 lastErr, policyVars, flushVars, rotated, applied, stateTick,
                 managerVars, loopVars, sliceVars>>

\* attestationLoop's tick ends: appendEvents with the events of Attest
AttestAppendEvents ==
  /\ pc = "running" /\ attestTick.pc = "append"
  /\ \E queueOK \in DiskAnswers(attestTick.events) :
       eventQueue' = appendEvents(eventQueue, attestTick.events, queueOK)
  /\ attestTick' = AttestIdle
  /\ UNCHANGED <<credFile, policyCache, handoffFile, enforced, serverVersion, pc, cred,
                 initialPolicy, lastVersion, lastErr, policyVars, flushVars, bearer, rotated,
                 applied, otherEvents, stateTick, managerVars, loopVars, sliceVars>>

\* ------------------------------------------------------------------------
\* Environment of the agent
\* ------------------------------------------------------------------------
\* the control plane, which had no policy for the device, publishes one:
\* the version an installer may have left in the handoff file or a later one
ServerPublish ==
  /\ serverVersion = 0
  /\ \E version \in 1..MaxVersion : serverVersion' = version
  /\ UNCHANGED <<diskVars, enforced, pc, cred, initialPolicy, lastVersion, lastErr, policyVars,
                 flushVars, bearer, rotated, applied, otherEvents, tickVars, managerVars, loopVars, sliceVars>>

\* the process ends (exit, crash, kill) and the init system starts it again:
\* the files and the host stay, the memory of the process is new
Restart ==
  /\ pc' = "boot"
  /\ cred' = NoCredentials
  /\ initialPolicy' = EmptyEnvelope
  /\ lastVersion' = 0
  /\ lastErr' = ""
  /\ policyPc' = "idle"
  /\ envelope' = EmptyEnvelope
  /\ policyResult' = "none"
  /\ flushPc' = "idle"
  /\ pending' = <<>>
  /\ bearer' = 0
  /\ rotated' = NoRotation
  /\ stateTick' = StateIdle
  /\ attestTick' = AttestIdle
  /\ UNCHANGED <<diskVars, enforced, serverVersion, applied, otherEvents, managerVars, loopVars,
                 sliceVars>>

Next ==
  \/ RunEnsureEnrollment
  \/ RunInitialApply
  \/ PullPolicyError
  \/ PullPolicyNotModified
  \/ PullPolicyEnvelope
  \/ PolicyApply
  \/ PolicyRotateToken
  \/ PolicySetVersion
  \/ PolicyPersist
  \/ FlushLoad
  \/ FlushSend
  \/ FlushReplace
  \/ StateLoopTick
  \/ ReportStateFails
  \/ ReportStateRequest
  \/ StateSetLastError
  \/ LoginLoopTick
  \/ AttestationLoopTick
  \/ AttestSubmit
  \/ AttestAppendEvents
  \/ ServerPublish

Spec == Init /\ [][Next]_vars

\* SpecRestart: the start of the agent, the policy loop and the event loop
\* of a process that ends and is started again any number of times
NextRestart ==
  \/ RunEnsureEnrollment
  \/ RunInitialApply
  \/ PullPolicyError
  \/ PullPolicyNotModified
  \/ PullPolicyEnvelope
  \/ PolicyApply
  \/ PolicyRotateToken
  \/ PolicySetVersion
  \/ PolicyPersist
  \/ FlushLoad
  \/ FlushSend
  \/ FlushReplace
  \/ ServerPublish
  \/ Restart

SpecRestart == Init /\ [][NextRestart]_vars

\* ------------------------------------------------------------------------
\* policy.Manager driven call by call
\* ------------------------------------------------------------------------
\* envelopes handed to Apply: any version, well signed with or without a
\* token, or with a signature that is missing, malformed or made over
\* another document
Envelopes ==
  {Issued(v, tok) : v \in 1..MaxVersion, tok \in 0..1}
    \cup UNION {{PolicyEnvelope(v, sig, v, 0) : sig \in {SigMissing, SigMalformed, OtherDoc(v)}} :
                  v \in 1..MaxVersion}

\* one Manager.Apply call on any envelope, with any behaviour of the host and
\* of the disk
ManagerApply ==
  /\ call.n < MaxApplies
  /\ \E e \in Envelopes, host \in HostOutcomes, diskOK \in BOOLEAN :
       LET r == Apply(mgr, e, host, diskOK)
       IN /\ mgr' = [cache |-> r.cache, lastVersion |-> r.lastVersion, enforced |-> r.enforced]
          /\ call' = [made |-> TRUE, n |-> call.n + 1, envelope |-> e, host |-> host, diskOK |-> diskOK,
                      pre |-> mgr, events |-> r.events, err |-> r.err, calls |-> r.calls]
  /\ UNCHANGED <<agentVars, loopVars, sliceVars>>

\* the agent as constructed, not running
AgentParked == AgentInit /\ handoffFile = NoFile

InitApply == AgentParked /\ ManagerInit /\ LoopParked /\ SlicesParked

NextApply == ManagerApply

SpecApply == InitApply /\ [][NextApply]_vars

\* ------------------------------------------------------------------------
\* One loop under Agent.backoffLoop
\* ------------------------------------------------------------------------
\* the top of the loop body: a.wait(wait) when wait > 0
LoopWait ==
  /\ loopPc = "top"
  /\ slept' = IF wait > 0 THEN wait ELSE 0
  /\ loopPc' = "work"
  /\ UNCHANGED <<loopCfg, wait, delay, failures, agentVars, managerVars, sliceVars>>

\* work returns an error other than cancellation
TickFails ==
  /\ loopPc = "work"
  /\ failures < MaxFailures
  /\ wait' = delay
  /\ delay' = NextDelay(delay, MaxDelay(loopCfg))
  /\ failures' = failures + 1
  /\ loopPc' = "top"
  /\ UNCHANGED <<loopCfg, slept, agentVars, managerVars, sliceVars>>

\* work returns nil
TickSucceeds ==
  /\ loopPc = "work"
  /\ wait' = Interval(loopCfg)
  /\ delay' = BaseBackoff(loopCfg)
  /\ failures' = 0
  /\ loopPc' = "top"
  /\ UNCHANGED <<loopCfg, slept, agentVars, managerVars, sliceVars>>

InitBackoff == AgentParked /\ ManagerInit /\ LoopInit /\ SlicesParked

NextBackoff == LoopWait \/ TickFails \/ TickSucceeds

SpecBackoff == InitBackoff /\ [][NextBackoff]_vars

\* ------------------------------------------------------------------------
\* SpecRun: the supervisor of Agent.Run and its five loops
\* ------------------------------------------------------------------------
\* a.wait: the timer fired; the context, if done as well, lost the select
WaitTimer(i) ==
  /\ runPc # "returned"
  /\ loopState[i].pc = "wait"
  /\ loopState' = [loopState EXCEPT ![i] = StartedLoop]
  /\ UNCHANGED <<rootErr, ctxErr, errCh, runErr, round, runPc, runResult>>
  /\ UNCHANGED notRunVars

\* the loop function's return with the mutant of a channel without buffer:
\* the send waits for the supervisor to be at its select with no other
\* value offered
LoopReturnUnbuffered(i, workErr, ret) ==
  /\ errCh = <<>>
  /\ runPc = "select"
  /\ round < loops
  /\ loopState' = [loopState EXCEPT
                     ![i] = [pc |-> "returned", sleep |-> "zero", err |-> workErr, ret |-> ret]]
  /\ errCh' = Append(errCh, ret)

\* the loop function returns ret, workErr being what its last tick's work
\* returned: errCh <- ret, which needs room in the channel's buffer of
\* loops values, then wg.Done
LoopReturn(i, workErr, ret) ==
  /\ Len(errCh) < loops
  /\ loopState' = [loopState EXCEPT
                     ![i] = [pc |-> "returned", sleep |-> "zero", err |-> workErr, ret |-> ret]]
  /\ errCh' = Append(errCh, ret)

\* backoffLoop sets wait after a tick whose work returned workErr
LoopWaits(i, workErr, sleep) ==
  /\ loopState' = [loopState EXCEPT
                     ![i] = [pc |-> "wait", sleep |-> sleep, err |-> workErr, ret |-> "nil"]]
  /\ UNCHANGED errCh

\* a.wait: the context is done, backoffLoop returns ctx.Err()
WaitDone(i) ==
  /\ runPc # "returned"
  /\ loopState[i].pc = "wait"
  /\ ctxErr # "nil"
  /\ LoopReturn(i, "nil", ctxErr)
  /\ UNCHANGED <<rootErr, ctxErr, runErr, round, runPc, runResult>>
  /\ UNCHANGED notRunVars

\* backoffLoop after work(ctx) returned err, with the mutant that hands
\* every error of the work to the caller
AfterWorkReturnsAnyError(i, err) ==
  IF err # "nil"
  THEN LoopReturn(i, err, err)
  ELSE LoopWaits(i, err, "interval")

\* backoffLoop after work(ctx) returned err
AfterWork(i, err) ==
  IF err # "nil"
  THEN IF IsCanceled(err)
       THEN LoopReturn(i, err, err)
       ELSE LoopWaits(i, err, "delay")
  ELSE LoopWaits(i, err, "interval")

\* one tick of loop i: work(ctx) and what backoffLoop does with its error
Work(i) ==
  /\ runPc # "returned"
  /\ loopState[i].pc = "work"
  /\ \E err \in WorkErrors(ctxErr) : AfterWork(i, err)
  /\ UNCHANGED <<rootErr, ctxErr, runErr, round, runPc, runResult>>
  /\ UNCHANGED notRunVars

\* the context handed to Run is done: a signal cancelled it, or its
\* deadline passed
RootDone ==
  /\ runPc # "returned"
  /\ rootErr = "nil"
  /\ \E err \in {"Canceled", "DeadlineExceeded"} :
       /\ rootErr' = err
       /\ ctxErr' = CancelWith(ctxErr, err)
  /\ UNCHANGED <<loopState, errCh, runErr, round, runPc, runResult>>
  /\ UNCHANGED notRunVars

\* Run, select: case <-ctx.Done()
SelectDone ==
  /\ runPc = "select"
  /\ round < loops
  /\ ctxErr # "nil"
  /\ runErr' = ctxErr
  /\ round' = round + 1
  /\ UNCHANGED <<rootErr, ctxErr, loopState, errCh, runPc, runResult>>
  /\ UNCHANGED notRunVars

\* Run, select: case err := <-errCh
SelectErr ==
  /\ runPc = "select"
  /\ round < loops
  /\ errCh # <<>>
  /\ LET err == Head(errCh)
     IN IF err # "nil" /\ ~IsCanceled(err)
        THEN runErr' = err /\ ctxErr' = CancelWith(ctxErr, "Canceled")
        ELSE UNCHANGED <<runErr, ctxErr>>
  /\ errCh' = Tail(errCh)
  /\ round' = round + 1
  /\ UNCHANGED <<rootErr, loopState, runPc, runResult>>
  /\ UNCHANGED notRunVars

\* Run after the select rounds, with the mutant that leaves out wg.Wait
RunReturnWithoutWait ==
  /\ runPc = "select"
  /\ round = loops
  /\ runPc' = "returned"
  /\ runResult' = runErr
  /\ ctxErr' = CancelWith(ctxErr, "Canceled")
  /\ UNCHANGED <<rootErr, loopState, errCh, runErr, round>>
  /\ UNCHANGED notRunVars

\* Run after the select rounds: wg.Wait, return runErr, the deferred cancel
RunReturn ==
  /\ runPc = "select"
  /\ round = loops
  /\ \A i \in 1..loops : loopState[i].pc = "returned"
  /\ runPc' = "returned"
  /\ runResult' = runErr
  /\ ctxErr' = CancelWith(ctxErr, "Canceled")
  /\ UNCHANGED <<rootErr, loopState, errCh, runErr, round>>
  /\ UNCHANGED notRunVars

InitRun == AgentParked /\ ManagerInit /\ LoopParked /\ SlicesParked

NextRun ==
  \/ \E i \in 1..loops : WaitTimer(i)
  \/ \E i \in 1..loops : WaitDone(i)
  \/ \E i \in 1..loops : Work(i)
  \/ RootDone
  \/ SelectDone
  \/ SelectErr
  \/ RunReturn

SpecRun == InitRun /\ [][NextRun]_vars

\* ------------------------------------------------------------------------
\* SpecRollback: EnsureRollback called again and again while the host's
\* status changes
\* ------------------------------------------------------------------------
\* one EnsureRollback call, the host answering with any status
CallEnsureRollback ==
  /\ rb.n < MaxRollbackCalls
  /\ \E status \in Statuses, rollbackOK \in BOOLEAN :
       LET r == EnsureRollback(lastRollbackAttempt, status, rollbackOK)
       IN /\ lastRollbackAttempt' = r.last
          /\ rb' = [n |-> rb.n + 1, status |-> status, invoked |-> r.invoked,
                    events |-> r.events, err |-> r.err]
          /\ attempts' = IF r.invoked /\ status.BootedChecksum # 0
                         THEN [attempts EXCEPT ![status.BootedChecksum] = @ + 1]
                         ELSE attempts
  /\ UNCHANGED notRollbackVars

InitRollback == AgentParked /\ ManagerInit /\ LoopParked /\ SlicesParked

NextRollback == CallEnsureRollback

SpecRollback == InitRollback /\ [][NextRollback]_vars

\* ------------------------------------------------------------------------
\* SpecReboot: updates.Manager.Apply on any update policy, host and time
\* ------------------------------------------------------------------------
\* policy.Manager.Apply: m.updates.Apply(ctx, envelope.Policy.Updates)
CallUpdatesApply ==
  /\ ~upOut.made
  /\ \E policy \in UpdatePolicies :
       \E host \in UpdateHosts(policy) :
         /\ upIn' = [policy |-> policy, host |-> host]
         /\ upOut' = [UpdatesApply(policy, host) EXCEPT !.made = TRUE]
  /\ UNCHANGED notUpdateVars

InitReboot == AgentParked /\ ManagerInit /\ LoopParked /\ SlicesParked

NextReboot == CallUpdatesApply

SpecReboot == InitReboot /\ [][NextReboot]_vars

\* ------------------------------------------------------------------------
\* SpecQueue: calls on a durable queue whose file may hold anything
\* ------------------------------------------------------------------------
\* a call of Load
CallLoad ==
  /\ qCall.n < MaxQueueCalls
  /\ LET r == Load(qFile)
     IN qCall' = [n |-> qCall.n + 1, op |-> "load", items |-> <<>>, pre |-> qFile,
                  err |-> r.err, loaded |-> r.items, restarted |-> FALSE]
  /\ UNCHANGED <<qName, qFile>>
  /\ UNCHANGED notQueueVars

\* a call of Append: any events on the event queue, one snapshot on the
\* state queue
CallAppend ==
  /\ qCall.n < MaxQueueCalls
  /\ \E items \in ItemLists, diskOK \in BOOLEAN :
       /\ qName = "state" => Len(items) = 1
       /\ LET r == AppendItems(qName, qFile, items, diskOK)
          IN /\ qFile' = r.file
             /\ qCall' = [n |-> qCall.n + 1, op |-> "append", items |-> items, pre |-> qFile,
                          err |-> r.err, loaded |-> <<>>, restarted |-> FALSE]
  /\ UNCHANGED qName
  /\ UNCHANGED notQueueVars

\* a call of Replace
CallReplace ==
  /\ qCall.n < MaxQueueCalls
  /\ \E items \in ReplaceSlices, diskOK \in BOOLEAN :
       LET r == Replace(qFile, items, diskOK)
       IN /\ qFile' = r.file
          /\ qCall' = [n |-> qCall.n + 1, op |-> "replace", items |-> items, pre |-> qFile,
                       err |-> r.err, loaded |-> <<>>, restarted |-> FALSE]
  /\ UNCHANGED qName
  /\ UNCHANGED notQueueVars

\* the process restarts after the latest call: NewQueue on the same path
QueueRestart ==
  /\ qCall.n < MaxQueueCalls
  /\ ~qCall.restarted
  /\ qCall' = [qCall EXCEPT !.restarted = TRUE]
  /\ UNCHANGED <<qName, qFile>>
  /\ UNCHANGED notQueueVars

InitQueue ==
  /\ AgentParked /\ ManagerInit /\ LoopParked
  /\ RunInit /\ RollbackInit /\ UpdateParked /\ WriteParked /\ StateParked /\ EventsParked /\ EnrollParked /\ AttestParked /\ WindowParked /\ StateLoopParked /\ FanOutParked
  /\ qName \in {"events", "state"}
  /\ qFile \in {MissingFile, ZeroBytes, JsonNull, Malformed, JsonArray(<<>>)}
  /\ qCall = NoQueueCall

NextQueue == CallLoad \/ CallAppend \/ CallReplace \/ QueueRestart

SpecQueue == InitQueue /\ [][NextQueue]_vars

\* ------------------------------------------------------------------------
\* SpecWrite: a persisted file written again and again, with crashes
\* ------------------------------------------------------------------------
\* a writer is called with the next document
BeginWrite ==
  /\ wrPc = "idle"
  /\ wrDoc < MaxWrites
  /\ wrDoc' = wrDoc + 1
  /\ wrPre' = target
  /\ wrOp' = "write"
  /\ wrPc' = "open"
  /\ UNCHANGED <<writer, target, tmpFile>>
  /\ UNCHANGED notWriteVars

\* where a failed os.WriteFile leaves the writer: network.Manager.Apply goes
\* on to its loop over the profile directory without the path in seen, the
\* other writers return the error
AfterFailedWrite(w) == IF w = "network.Manager.Apply" THEN "stale" ELSE "idle"

\* os.WriteFile opens its file with O_CREATE and O_TRUNC, or fails
OpenFile ==
  /\ wrPc = "open"
  /\ \E ok \in BOOLEAN :
       IF ~ok THEN wrPc' = AfterFailedWrite(writer) /\ UNCHANGED <<target, tmpFile>>
       ELSE /\ wrPc' = "write"
            /\ IF WriteIdiom(writer) = "tmp"
               THEN tmpFile' = Written(wrDoc, 0) /\ UNCHANGED target
               ELSE target' = Written(wrDoc, 0) /\ UNCHANGED tmpFile
  /\ UNCHANGED <<writer, wrDoc, wrPre, wrOp>>
  /\ UNCHANGED notWriteVars

\* os.WriteFile writes the next block, or fails and leaves what it wrote
WriteBlock ==
  /\ wrPc = "write"
  /\ \E ok \in BOOLEAN :
       IF ~ok THEN wrPc' = AfterFailedWrite(writer) /\ UNCHANGED <<target, tmpFile>>
       ELSE IF WriteIdiom(writer) = "tmp"
       THEN /\ tmpFile' = Written(wrDoc, tmpFile.len + 1)
            /\ wrPc' = IF tmpFile.len + 1 = MaxBlocks THEN "rename" ELSE "write"
            /\ UNCHANGED target
       ELSE /\ target' = Written(wrDoc, target.len + 1)
            /\ wrPc' = IF target.len + 1 = MaxBlocks THEN "idle" ELSE "write"
            /\ UNCHANGED tmpFile
  /\ UNCHANGED <<writer, wrDoc, wrPre, wrOp>>
  /\ UNCHANGED notWriteVars

\* os.Rename(tmp, path), or its failure
RenameFile ==
  /\ wrPc = "rename"
  /\ \E ok \in BOOLEAN :
       IF ok THEN target' = tmpFile /\ tmpFile' = AbsentFile
       ELSE UNCHANGED <<target, tmpFile>>
  /\ wrPc' = "idle"
  /\ UNCHANGED <<writer, wrDoc, wrPre, wrOp>>
  /\ UNCHANGED notWriteVars

\* network.Manager.Apply after a failed write of the profile: the loop over
\* the directory finds the file, which is not in seen, and removes it; the
\* file stays when ReadDir or Remove fails
StaleLoop ==
  /\ wrPc = "stale"
  /\ \E readDirOK \in BOOLEAN, removeOK \in BOOLEAN :
       target' = IF readDirOK /\ removeOK THEN AbsentFile ELSE target
  /\ wrPc' = "idle"
  /\ UNCHANGED <<writer, tmpFile, wrDoc, wrPre, wrOp>>
  /\ UNCHANGED notWriteVars

\* the file is removed: removeUSBGuardRules, or network.Manager.Apply with a
\* policy that does not name the profile.  os.Remove can fail, and so can
\* the ReadDir before it in network.Manager.Apply; the file stays then.
RemoveFile ==
  /\ wrPc = "idle"
  /\ writer \in Removers
  /\ wrPre' = target
  /\ wrOp' = "remove"
  /\ \E ok \in BOOLEAN : target' = IF ok THEN AbsentFile ELSE target
  /\ UNCHANGED <<writer, tmpFile, wrPc, wrDoc>>
  /\ UNCHANGED notWriteVars

\* the process is killed during a write; the files stay as they are
Crash ==
  /\ wrPc # "idle"
  /\ wrPc' = "idle"
  /\ UNCHANGED <<writer, target, tmpFile, wrDoc, wrPre, wrOp>>
  /\ UNCHANGED notWriteVars

InitWrite ==
  /\ AgentParked /\ ManagerInit /\ LoopParked
  /\ RunInit /\ RollbackInit /\ UpdateParked /\ QueueParked /\ StateParked /\ EventsParked /\ EnrollParked /\ AttestParked /\ WindowParked /\ StateLoopParked /\ FanOutParked
  /\ writer \in Writers
  /\ target = AbsentFile
  /\ tmpFile = AbsentFile
  /\ wrPc = "idle"
  /\ wrDoc = 0
  /\ wrPre = AbsentFile
  /\ wrOp = "none"

NextWrite ==
  BeginWrite \/ OpenFile \/ WriteBlock \/ RenameFile \/ StaleLoop \/ RemoveFile \/ Crash

SpecWrite == InitWrite /\ [][NextWrite]_vars

\* ------------------------------------------------------------------------
\* SpecStateTick: the state loop's tick on the state queue, with restarts
\* ------------------------------------------------------------------------
\* the tick returns err
EndStateTick(err) ==
  /\ stPc' = "idle"
  /\ stPending' = <<>>
  /\ stErr' = err

\* stateLoop up to the drain: EnsureRollback, then in reportState the
\* snapshot and its Append; an error of any of the three ends the tick
BeginStateTick ==
  /\ stPc = "idle"
  /\ snapshots < MaxSnapshots
  /\ \E rollbackOK \in BOOLEAN, snapshotOK \in BOOLEAN, diskOK \in BOOLEAN :
       IF ~rollbackOK
       THEN EndStateTick("rollback") /\ UNCHANGED <<stFile, snapshots, appended>>
       ELSE IF ~snapshotOK
       THEN EndStateTick("snapshot") /\ UNCHANGED <<stFile, snapshots, appended>>
       ELSE LET snapshot == snapshots + 1
                r == AppendItems("state", stFile, <<snapshot>>, diskOK)
            IN /\ snapshots' = snapshot
               /\ stFile' = r.file
               /\ IF r.err # "nil"
                  THEN EndStateTick("persist") /\ UNCHANGED appended
                  ELSE /\ appended' = Append(appended, snapshot)
                       /\ stPc' = "load"
                       /\ UNCHANGED <<stPending, stErr>>
  /\ UNCHANGED acked
  /\ UNCHANGED notStateVars

\* the head of the drain loop: Load; an error ends the tick, an empty
\* queue ends it with nil
LoadPending ==
  /\ stPc = "load"
  /\ LET r == Load(stFile)
     IN IF r.err # "nil" THEN EndStateTick(r.err)
        ELSE IF Len(r.items) = 0 THEN EndStateTick("nil")
        ELSE /\ stPending' = r.items
             /\ stPc' = "send"
             /\ UNCHANGED stErr
  /\ UNCHANGED <<stFile, snapshots, appended, acked>>
  /\ UNCHANGED notStateVars

\* the send with the mutant that goes on to Replace after a failed send
SendHeadIgnoresError ==
  /\ stPc = "send"
  /\ \E ok \in BOOLEAN :
       /\ acked' = IF ok THEN Append(acked, Head(stPending)) ELSE acked
       /\ stPc' = "replace"
       /\ UNCHANGED <<stPending, stErr>>
  /\ UNCHANGED <<stFile, snapshots, appended>>
  /\ UNCHANGED notStateVars

\* client.ReportState of pending[0]: nil is the server's acknowledgement,
\* an error ends the tick
SendHead ==
  /\ stPc = "send"
  /\ \E ok \in BOOLEAN :
       IF ok
       THEN /\ acked' = Append(acked, Head(stPending))
            /\ stPc' = "replace"
            /\ UNCHANGED <<stPending, stErr>>
       ELSE EndStateTick("send") /\ UNCHANGED acked
  /\ UNCHANGED <<stFile, snapshots, appended>>
  /\ UNCHANGED notStateVars

\* Replace(pending[1:]); an error ends the tick, otherwise the loop goes
\* round
ReplacePending ==
  /\ stPc = "replace"
  /\ \E diskOK \in BOOLEAN :
       LET r == Replace(stFile, Tail(stPending), diskOK)
       IN /\ stFile' = r.file
          /\ IF r.err # "nil" THEN EndStateTick(r.err)
             ELSE /\ stPc' = "load"
                  /\ stPending' = <<>>
                  /\ UNCHANGED stErr
  /\ UNCHANGED <<snapshots, appended, acked>>
  /\ UNCHANGED notStateVars

\* the process dies and starts again: the file stays, the tick is gone
StateRestart ==
  /\ stPc # "idle"
  /\ stPc' = "idle"
  /\ stPending' = <<>>
  /\ stErr' = "nil"
  /\ UNCHANGED <<stFile, snapshots, appended, acked>>
  /\ UNCHANGED notStateVars

InitStateTick ==
  /\ AgentParked /\ ManagerInit /\ LoopParked
  /\ RunInit /\ RollbackInit /\ UpdateParked /\ QueueParked /\ WriteParked /\ EventsParked /\ EnrollParked /\ AttestParked /\ WindowParked /\ StateLoopParked /\ FanOutParked
  /\ stFile \in {MissingFile, ZeroBytes, JsonNull, Malformed, JsonArray(<<>>)}
  /\ stPc = "idle"
  /\ stPending = <<>>
  /\ stErr = "nil"
  /\ snapshots = 0
  /\ appended = <<>>
  /\ acked = <<>>

NextStateTick ==
  BeginStateTick \/ LoadPending \/ SendHead \/ ReplacePending \/ StateRestart

SpecStateTick == InitStateTick /\ [][NextStateTick]_vars

\* ------------------------------------------------------------------------
\* SpecEvents: the login loop filling the event queue, the event loop
\* flushing it, with restarts
\* ------------------------------------------------------------------------
\* loginLoop's tick: Collect, then appendEvents, which logs an error of
\* Append and returns nothing; the tick returns nil after it
LoginTick ==
  /\ collected < MaxEvents
  /\ \E collectOK \in BOOLEAN, n \in 0..1, diskOK \in BOOLEAN :
       IF ~collectOK
       THEN /\ login' = [events |-> <<>>, appendErr |-> "nil", err |-> "collect"]
            /\ UNCHANGED <<evFile, collected, queued>>
       ELSE LET events == IF n = 0 THEN <<>> ELSE <<collected + 1>>
                r == AppendItems("events", evFile, events, diskOK)
            IN /\ collected' = collected + n
               /\ evFile' = r.file
               /\ queued' = IF r.err = "nil" THEN queued \o events ELSE queued
               /\ login' = [events |-> events, appendErr |-> r.err, err |-> "nil"]
  /\ UNCHANGED <<flPc, flPending, flErr, batches, requests>>
  /\ UNCHANGED notEventsVars

\* the event-flush tick returns err
EndFlushTick(err) ==
  /\ flPc' = "idle"
  /\ flPending' = <<>>
  /\ flErr' = err

\* flushEvents: Load; an error ends the tick, an empty queue ends it with
\* nil
FlushLoadFile ==
  /\ flPc = "idle"
  /\ requests < MaxRequests
  /\ LET r == Load(evFile)
     IN IF r.err # "nil" THEN EndFlushTick(r.err)
        ELSE IF Len(r.items) = 0 THEN EndFlushTick("nil")
        ELSE /\ flPending' = r.items
             /\ flPc' = "send"
             /\ UNCHANGED flErr
  /\ UNCHANGED <<evFile, collected, login, queued, batches, requests>>
  /\ UNCHANGED notEventsVars

\* flushEvents: client.ReportEvents with everything loaded as one batch
FlushSendBatch ==
  /\ flPc = "send"
  /\ requests' = requests + 1
  /\ \E ok \in BOOLEAN :
       IF ok
       THEN /\ batches' = Append(batches, flPending)
            /\ flPc' = "replace"
            /\ UNCHANGED <<flPending, flErr>>
       ELSE EndFlushTick("send") /\ UNCHANGED batches
  /\ UNCHANGED <<evFile, collected, login, queued>>
  /\ UNCHANGED notEventsVars

\* flushEvents: Replace with the empty list; its error is the tick's
FlushReplaceFile ==
  /\ flPc = "replace"
  /\ \E diskOK \in BOOLEAN :
       LET r == Replace(evFile, <<>>, diskOK)
       IN evFile' = r.file /\ EndFlushTick(r.err)
  /\ UNCHANGED <<collected, login, queued, batches, requests>>
  /\ UNCHANGED notEventsVars

\* the process dies and starts again: the file stays, the tick is gone
EventsRestart ==
  /\ flPc # "idle"
  /\ EndFlushTick("none")
  /\ UNCHANGED <<evFile, collected, login, queued, batches, requests>>
  /\ UNCHANGED notEventsVars

InitEvents ==
  /\ AgentParked /\ ManagerInit /\ LoopParked
  /\ RunInit /\ RollbackInit /\ UpdateParked /\ QueueParked /\ WriteParked /\ StateParked /\ EnrollParked /\ AttestParked /\ WindowParked /\ StateLoopParked /\ FanOutParked
  /\ evFile \in {MissingFile, ZeroBytes, JsonNull, Malformed, JsonArray(<<>>)}
  /\ flPc = "idle"
  /\ flPending = <<>>
  /\ flErr = "nil"
  /\ collected = 0
  /\ login = NoLoginTick
  /\ queued = <<>>
  /\ batches = <<>>
  /\ requests = 0

NextEvents ==
  LoginTick \/ FlushLoadFile \/ FlushSendBatch \/ FlushReplaceFile \/ EventsRestart

SpecEvents == InitEvents /\ [][NextEvents]_vars

\* ------------------------------------------------------------------------
\* SpecEnroll: EnsureEnrollment called at every start of the agent
\* ------------------------------------------------------------------------
\* Run calls EnsureEnrollment; the files stay as the call leaves them
CallEnsureEnrollment ==
  /\ enCall.n < MaxEnrollCalls
  /\ \E resp \in EnrollAnswers(1), diskOK \in BOOLEAN, removeOK \in BOOLEAN :
       LET r == EnsureEnrollment(enFile, enHandoff, resp, diskOK, removeOK)
       IN /\ enCall' = [n |-> enCall.n + 1, file |-> enFile, handoff |-> enHandoff,
                        result |-> r]
          /\ enFile' = r.credFile
          /\ enHandoff' = r.handoffFile
          /\ enrollRequests' = IF r.enrollCalled THEN enrollRequests + 1 ELSE enrollRequests
  /\ UNCHANGED notEnrollVars

\* between two starts an installer leaves a handoff file at the configured
\* path
InstallerLeavesHandoff ==
  /\ enHandoff = NoFile
  /\ enHandoff' \in EnrollHandoffs \ {NoFile}
  /\ UNCHANGED <<enFile, enCall, enrollRequests>>
  /\ UNCHANGED notEnrollVars

InitEnroll ==
  /\ AgentParked /\ ManagerInit /\ LoopParked
  /\ RunInit /\ RollbackInit /\ UpdateParked /\ QueueParked /\ WriteParked /\ StateParked /\ EventsParked /\ AttestParked /\ WindowParked /\ StateLoopParked /\ FanOutParked
  /\ enFile \in EnrollFiles
  /\ enHandoff \in EnrollHandoffs
  /\ enCall = NoEnrollCall
  /\ enrollRequests = 0

NextEnroll == CallEnsureEnrollment \/ InstallerLeavesHandoff

SpecEnroll == InitEnroll /\ [][NextEnroll]_vars

\* ------------------------------------------------------------------------
\* SpecAttest: Attest called again and again as time passes
\* ------------------------------------------------------------------------
\* the attestation loop's tick calls Attest
CallAttest ==
  /\ atCall.n < MaxAttestCalls
  /\ \E host \in AttestHosts :
       LET r == Attest(atMgr, atNow, host)
       IN /\ atCall' = [n |-> atCall.n + 1, pre |-> atMgr, now |-> atNow, host |-> host,
                        attested |-> attested, result |-> r]
          /\ atMgr' = r.mgr
          /\ atPrev' = IF atCall.result.read THEN <<atCall.host.pcrs>> ELSE atPrev
          /\ attested' = IF r.submitted /\ r.err = "nil" THEN <<host.pcrs>> ELSE attested
  /\ UNCHANGED atNow
  /\ UNCHANGED notAttestVars

\* half an hour passes
AttestClock ==
  /\ atNow < MaxClock
  /\ atNow' = atNow + 1
  /\ UNCHANGED <<atMgr, atCall, atPrev, attested>>
  /\ UNCHANGED notAttestVars

InitAttest ==
  /\ AgentParked /\ ManagerInit /\ LoopParked
  /\ RunInit /\ RollbackInit /\ UpdateParked /\ QueueParked /\ WriteParked /\ StateParked /\ EventsParked /\ EnrollParked /\ WindowParked /\ StateLoopParked /\ FanOutParked
  /\ atMgr = NewAttestManager
  /\ atNow = 1
  /\ atCall = NoAttestCall
  /\ atPrev = <<>>
  /\ attested = <<>>

NextAttest == CallAttest \/ AttestClock

SpecAttest == InitAttest /\ [][NextAttest]_vars

\* ------------------------------------------------------------------------
\* SpecStateLoop: the state loop's tick from EnsureRollback to the report
\* ------------------------------------------------------------------------
\* reportState's drain loop on the state queue: Load, ReportState of the
\* head, Replace with the tail; sends is the number of requests the server
\* acknowledges before one fails, replaces the number of Replace calls that
\* succeed before one fails
RECURSIVE drainStates(_, _, _)
drainStates(file, sends, replaces) ==
  LET r == Load(file)
  IN IF r.err # "nil" THEN [file |-> file, sent |-> <<>>, tried |-> 0, err |-> r.err]
     ELSE IF Len(r.items) = 0 THEN [file |-> file, sent |-> <<>>, tried |-> 0, err |-> "nil"]
     ELSE IF sends = 0 THEN [file |-> file, sent |-> <<>>, tried |-> 1, err |-> "send"]
     ELSE LET w == Replace(file, Tail(r.items), replaces > 0)
          IN IF w.err # "nil"
             THEN [file |-> w.file, sent |-> <<Head(r.items)>>, tried |-> 1, err |-> w.err]
             ELSE LET rest == drainStates(w.file, sends - 1, replaces - 1)
                  IN [file |-> rest.file, sent |-> <<Head(r.items)>> \o rest.sent,
                      tried |-> 1 + rest.tried, err |-> rest.err]

\* reportState with a state queue (Snapshot returns no error): the queue
\* file afterwards, the snapshots acknowledged, the error and the steps taken
reportState(file, snapshot, appendOK, sends, replaces) ==
  LET a == AppendItems("state", file, <<snapshot>>, appendOK)
  IN IF a.err # "nil"
     THEN [file |-> a.file, sent |-> <<>>, err |-> "persist",
           log |-> <<"snapshot", "append_state">>]
     ELSE LET d == drainStates(a.file, sends, replaces)
          IN [file |-> d.file, sent |-> d.sent, err |-> d.err,
              log |-> <<"snapshot", "append_state">> \o [i \in 1..d.tried |-> "send"]]

\* the steps of EnsureRollback and appendEvents in a tick
RollbackSteps(r) ==
  <<"ensure_rollback">> \o (IF r.invoked THEN <<"rollback">> ELSE <<>>)
    \o (IF Len(r.events) > 0 THEN <<"append_events">> ELSE <<>>)

\* the tick's first half with the mutant that leaves EnsureRollback out
TickWithoutEnsureRollback ==
  /\ slPc = "idle"
  /\ slTick.n < MaxTicks
  /\ \E status \in StateLoopStatuses :
       slTick' = [n |-> slTick.n + 1, status |-> status, pre |-> slLast, failed |-> slFailed,
                  states |-> slStates, eventsOK |-> TRUE,
                  rb |-> [last |-> slLast, invoked |-> FALSE, events |-> <<>>, err |-> "nil"],
                  log |-> <<>>, err |-> "nil", done |-> FALSE]
  /\ slPc' = "report"
  /\ UNCHANGED <<slLast, slEvents, slStates, slSent, slLastErr, slFailed>>
  /\ UNCHANGED notStateLoopVars

\* the tick's first half with the mutant that goes on to reportState after
\* an error of EnsureRollback
TickGoesOnAfterError ==
  /\ slPc = "idle"
  /\ slTick.n < MaxTicks
  /\ \E status \in StateLoopStatuses, rollbackOK \in BOOLEAN, eventsOK \in BOOLEAN :
       LET r == EnsureRollback(slLast, status, rollbackOK)
           q == AppendItems("events", slEvents, r.events, eventsOK)
       IN /\ slLast' = r.last
          /\ slEvents' = q.file
          /\ slFailed' = IF status.available /\ ~NeedsRollback(status) THEN {}
                         ELSE IF r.invoked /\ r.err # "nil"
                         THEN slFailed \cup {Identifier(status)} ELSE slFailed
          /\ slTick' = [n |-> slTick.n + 1, status |-> status, pre |-> slLast,
                        failed |-> slFailed, states |-> slStates, eventsOK |-> eventsOK,
                        rb |-> r, log |-> RollbackSteps(r), err |-> r.err, done |-> FALSE]
          /\ slLastErr' = IF r.err # "nil" THEN r.err ELSE slLastErr
          /\ slPc' = "report"
  /\ UNCHANGED <<slStates, slSent>>
  /\ UNCHANGED notStateLoopVars

\* stateLoop's tick up to reportState: EnsureRollback and appendEvents; an
\* error sets the last error and ends the tick
TickEnsureRollback ==
  /\ slPc = "idle"
  /\ slTick.n < MaxTicks
  /\ \E status \in StateLoopStatuses, rollbackOK \in BOOLEAN, eventsOK \in BOOLEAN :
       LET r == EnsureRollback(slLast, status, rollbackOK)
           q == AppendItems("events", slEvents, r.events, eventsOK)
       IN /\ slLast' = r.last
          /\ slEvents' = q.file
          /\ slFailed' = IF status.available /\ ~NeedsRollback(status) THEN {}
                         ELSE IF r.invoked /\ r.err # "nil"
                         THEN slFailed \cup {Identifier(status)} ELSE slFailed
          /\ slTick' = [n |-> slTick.n + 1, status |-> status, pre |-> slLast,
                        failed |-> slFailed, states |-> slStates, eventsOK |-> eventsOK,
                        rb |-> r, log |-> RollbackSteps(r), err |-> r.err,
                        done |-> r.err # "nil"]
          /\ IF r.err # "nil"
             THEN slLastErr' = r.err /\ slPc' = "idle"
             ELSE slPc' = "report" /\ UNCHANGED slLastErr
  /\ UNCHANGED <<slStates, slSent>>
  /\ UNCHANGED notStateLoopVars

\* stateLoop's tick from reportState on: the snapshot, its Append, the
\* drain, and SetLastError with the error or nil
TickReportState ==
  /\ slPc = "report"
  /\ \E appendOK \in BOOLEAN, sends \in 0..MaxTicks, replaces \in 0..MaxTicks :
       LET r == reportState(slStates, slTick.n, appendOK, sends, replaces)
       IN /\ slStates' = r.file
          /\ slSent' = slSent \o r.sent
          /\ slLastErr' = IF r.err = "nil" THEN "" ELSE r.err
          /\ slTick' = [slTick EXCEPT !.log = @ \o r.log, !.err = r.err, !.done = TRUE]
  /\ slPc' = "idle"
  /\ UNCHANGED <<slLast, slEvents, slFailed>>
  /\ UNCHANGED notStateLoopVars

InitStateLoop ==
  /\ AgentParked /\ ManagerInit /\ LoopParked
  /\ RunInit /\ RollbackInit /\ UpdateParked /\ QueueParked /\ WriteParked /\ StateParked /\ EventsParked /\ EnrollParked /\ AttestParked /\ WindowParked /\ FanOutParked
  /\ slPc = "idle"
  /\ slLast = 0
  /\ slTick = NoStateTick
  /\ slEvents = MissingFile
  /\ slStates = MissingFile
  /\ slSent = <<>>
  /\ slLastErr = ""
  /\ slFailed = {}

NextStateLoop == TickEnsureRollback \/ TickReportState

SpecStateLoop == InitStateLoop /\ [][NextStateLoop]_vars

\* ------------------------------------------------------------------------
\* SpecFanOut: appendEvents of the policy loop beside the other loops
\* ------------------------------------------------------------------------
\* Events in this queue carry where they come from: src is the number of
\* the apply (0 for an event of another loop) and seq the place of the
\* event among those the call returned.
Tagged(src, events) ==
  [i \in 1..Len(events) |-> [src |-> src, seq |-> i, ev |-> events[i]]]

\* pullAndApplyPolicy: Manager.Apply and appendEvents of what it returned,
\* one Append under the queue's mutex
PolicyAppendsFanOut ==
  /\ fqApplies < MaxApplies
  /\ \E host \in HostOutcomes, diskOK \in BOOLEAN :
       LET r == Apply(NewManager, Issued(fqApplies + 1, 0), host, TRUE)
       IN fqFile' = AppendItems("events", fqFile, Tagged(fqApplies + 1, r.events), diskOK).file
  /\ fqApplies' = fqApplies + 1
  /\ UNCHANGED <<fqPc, fqOthers>>
  /\ UNCHANGED notFanOutVars

\* appendEvents of the state, login or attestation loop: one event
OtherLoopAppends ==
  /\ fqOthers < MaxOthers
  /\ \E diskOK \in BOOLEAN :
       fqFile' = AppendItems("events", fqFile,
                             Tagged(0, <<NewEvent("user.login", fqOthers + 1)>>), diskOK).file
  /\ fqOthers' = fqOthers + 1
  /\ UNCHANGED <<fqPc, fqApplies>>
  /\ UNCHANGED notFanOutVars

\* flushEvents: Load finds events
FlushLoads ==
  /\ fqPc = "idle"
  /\ Load(fqFile).err = "nil"
  /\ Len(Load(fqFile).items) > 0
  /\ fqPc' = "loaded"
  /\ UNCHANGED <<fqFile, fqApplies, fqOthers>>
  /\ UNCHANGED notFanOutVars

\* flushEvents: ReportEvents fails and the tick ends, or it is acknowledged
\* and Replace writes the empty list
FlushReplaces ==
  /\ fqPc = "loaded"
  /\ \E sent \in BOOLEAN, diskOK \in BOOLEAN :
       fqFile' = IF sent THEN Replace(fqFile, <<>>, diskOK).file ELSE fqFile
  /\ fqPc' = "idle"
  /\ UNCHANGED <<fqApplies, fqOthers>>
  /\ UNCHANGED notFanOutVars

InitFanOut ==
  /\ AgentParked /\ ManagerInit /\ LoopParked
  /\ RunInit /\ RollbackInit /\ UpdateParked /\ QueueParked /\ WriteParked /\ StateParked /\ EventsParked /\ EnrollParked /\ AttestParked /\ WindowParked /\ StateLoopParked
  /\ fqFile \in {MissingFile, JsonArray(<<>>)}
  /\ fqPc = "idle"
  /\ fqApplies = 0
  /\ fqOthers = 0

NextFanOut == PolicyAppendsFanOut \/ OtherLoopAppends \/ FlushLoads \/ FlushReplaces

SpecFanOut == InitFanOut /\ [][NextFanOut]_vars

\* ------------------------------------------------------------------------
\* SpecWindows: the maintenance-window functions on window lists and times
\* ------------------------------------------------------------------------
\* the reboot gate's three calls on the policy's entries at m.now()
EvalWindows ==
  /\ ~wOut.made
  /\ LET segments == parseMaintenanceWindows(wIn.entries).segments
     IN wOut' = [made |-> TRUE, segments |-> segments,
                 allowed |-> maintenanceAllowsNow(segments, wIn.now),
                 next |-> nextMaintenanceWindow(segments, wIn.now)]
  /\ UNCHANGED <<wIn, notWindowVars>>

InitWindows ==
  /\ AgentParked /\ ManagerInit /\ LoopParked
  /\ RunInit /\ RollbackInit /\ UpdateParked /\ QueueParked /\ WriteParked /\ StateParked /\ EventsParked /\ EnrollParked /\ AttestParked /\ StateLoopParked /\ FanOutParked
  /\ \E entries \in WindowLists, now \in WindowClock :
       wIn = [entries |-> entries, now |-> now]
  /\ wOut = NoWindowResult

NextWindows == EvalWindows

SpecWindows == InitWindows /\ [][NextWindows]_vars

\* ------------------------------------------------------------------------
\* Properties of Manager.Apply (SpecApply)
\* ------------------------------------------------------------------------
\* the events the first k adapters of the fixed order return under host
RECURSIVE FanOutEvents(_, _)
FanOutEvents(host, k) ==
  IF k = 0 THEN <<>>
  ELSE LET a == <<"apps", "browser", "updates", "network", "security">>[k]
       IN FanOutEvents(host, k - 1) \o
            (IF host[a] = "ok" THEN <<[type |-> a, version |-> 0]>>
             ELSE IF host[a] = "failev" THEN <<[type |-> "update.failure", version |-> 0]>>
             ELSE <<>>)

\* C3: an Apply on an envelope whose signature is not a valid signature over
\* its policy does nothing: the cache file, the last-applied version and the
\* host are as before, no adapter is invoked and no event returned.  Every
\* adapter invocation of any Apply carries the policy of an envelope whose
\* signature is valid.
C3_VerifyBeforeAnything ==
  call.made =>
    /\ (call.envelope.signature # call.envelope.policy =>
          /\ call.err = "verify"
          /\ mgr.cache = call.pre.cache
          /\ mgr.lastVersion = call.pre.lastVersion
          /\ mgr.enforced = call.pre.enforced
          /\ call.calls = <<>>
          /\ call.events = <<>>)
    /\ \A i \in 1..Len(call.calls) :
          /\ call.calls[i].policy = call.envelope.policy
          /\ call.envelope.signature = call.envelope.policy

\* C3 witness: a well-formed signature made over another document is
\* rejected by a manager that has a cache and a last-applied version
C3_Witness ==
  /\ call.made
  /\ call.envelope.signature > 0
  /\ call.envelope.signature # call.envelope.policy
  /\ Exists(call.pre.cache)
  /\ call.pre.lastVersion # 0
  /\ call.err = "verify"

\* C4: the adapters are invoked in the order apps, browser, updates, network,
\* security.  When adapter number k fails, exactly the first k adapters were
\* invoked, Apply returns their events (the failing adapter's included) with
\* the error and without policy.apply.success, the last-applied version is
\* as before, the adapters before k keep what they enforced and those from k
\* on have enforced nothing new.
C4_FanOutStopsAtFirstError ==
  call.made =>
    LET order == <<"apps", "browser", "updates", "network", "security">>
    IN /\ \A i \in 1..Len(call.calls) : i <= 5 /\ call.calls[i].adapter = order[i]
       /\ \A k \in 1..5 :
            (call.err = order[k]) =>
              /\ call.host[order[k]] # "ok"
              /\ Len(call.calls) = k
              /\ call.events = FanOutEvents(call.host, k)
              /\ \A i \in 1..Len(call.events) : call.events[i].type # "policy.apply.success"
              /\ mgr.lastVersion = call.pre.lastVersion
              /\ \A i \in 1..(k - 1) : mgr.enforced[order[i]] = call.envelope.policy
              /\ \A i \in k..5 : mgr.enforced[order[i]] = call.pre.enforced[order[i]]

\* C4 witness: updates fails with a failure event after apps and browser
\* enforced a new policy, on a manager that had applied another version
C4_Witness ==
  /\ call.made
  /\ call.err = "updates"
  /\ call.host["updates"] = "failev"
  /\ Len(call.events) = 3
  /\ call.pre.lastVersion # 0
  /\ call.pre.lastVersion # call.envelope.version
  /\ call.pre.enforced["apps"] # call.envelope.policy
  /\ call.pre.enforced["network"] # call.envelope.policy

\* C5: when the signature is valid, the cache is written and all five
\* adapters succeed, Apply returns the adapters' events in adapter order
\* followed by one policy.apply.success event with the envelope's version,
\* and the last-applied version is that version; on every other path the
\* last-applied version is as before.
C5_SuccessSetsLastVersion ==
  call.made =>
    LET success == /\ call.envelope.signature = call.envelope.policy
                   /\ call.diskOK
                   /\ \A a \in DOMAIN call.host : call.host[a] = "ok"
    IN /\ success <=> call.err = "nil"
       /\ success =>
            /\ call.events = FanOutEvents(call.host, 5) \o
                 <<[type |-> "policy.apply.success", version |-> call.envelope.version]>>
            /\ mgr.lastVersion = call.envelope.version
       /\ ~success => mgr.lastVersion = call.pre.lastVersion

\* C5 witness: a successful Apply moves the last-applied version from one
\* version to another
C5_Witness ==
  /\ call.made
  /\ call.err = "nil"
  /\ Len(call.events) = 6
  /\ call.pre.lastVersion # 0
  /\ call.pre.lastVersion # call.envelope.version
  /\ mgr.lastVersion = call.envelope.version

\* ------------------------------------------------------------------------
\* Properties of the running agent (Spec)
\* ------------------------------------------------------------------------
\* the policy_version the credential file stores ("" without the file)
StoredVersion == IF Exists(credFile) THEN credFile[1].cred.version ELSE 0

\* the device token the credential file stores ("" without the file)
StoredToken == IF Exists(credFile) THEN credFile[1].cred.token ELSE 0

\* C1: events leave the queue only as an acknowledged batch: whenever the
\* queue file gets shorter, the step is the Replace that follows an
\* acknowledged ReportEvents and the file held exactly the batch sent.
C1_EventsLeaveOnlyAcknowledged ==
  [][Len(eventQueue') < Len(eventQueue) => (flushPc = "replace" /\ eventQueue = pending)]_vars

\* C2: the version a policy tick reports to PullPolicy was enforced on this
\* host by an Apply that completed: a version whose apply failed is never
\* reported as the current one.
C2_ReportedVersionWasEnforced ==
  (pc = "running" /\ policyPc = "idle") =>
    LET version == ReportVersion(lastVersion, policyCache)
    IN version # 0 => version \in applied

\* C6: after a policy apply that succeeded (the initial apply of Run, or a
\* policy tick that ended without error on an envelope), the version in the
\* policy cache, the policy_version in the credential file and the
\* last-applied version are the same.
C6_CacheMatchesCredentials ==
  (pc = "running" /\ policyPc = "idle" /\ policyResult \in {"initial", "applied"}) =>
    /\ Exists(policyCache)
    /\ Exists(credFile)
    /\ policyCache[1].version = StoredVersion
    /\ policyCache[1].version = lastVersion

\* C6 witness: a policy tick has carried the device from one version to the
\* next
C6_Witness ==
  /\ pc = "running" /\ policyPc = "idle" /\ policyResult = "applied"
  /\ StoredVersion = MaxVersion
  /\ 1 \in applied

\* the version the policy cache holds ("" without the file)
CacheVersion == CachedPolicy(policyCache).version

\* the newest version the device holds: in the credential file, in the
\* policy cache, or in the envelope the agent has in hand.  Versions are
\* numbered in the order the control plane publishes them, so "older" is <.
NewestVersion ==
  LET held == {StoredVersion, CacheVersion, envelope.version, initialPolicy.version}
  IN CHOOSE v \in held : \A o \in held : o <= v

\* C7: in every state the credential file and the policy cache
\* are consistent: either both hold the same version v, or the credential
\* file holds an older version and the cache is absent or older as well;
\* one file never holds v while the other does not.
C7_StoreAndCacheConsistent ==
  \/ StoredVersion = NewestVersion /\ CacheVersion = NewestVersion
  \/ StoredVersion < NewestVersion /\ CacheVersion < NewestVersion

\* C8: a policy tick answered 304 ends without error and changes no file,
\* no host state, no queue content, neither the credentials in memory nor
\* the last-applied version.
C8_NotModifiedChangesNothing ==
  [][(policyResult # "notmodified" /\ policyResult' = "notmodified") =>
       /\ lastErr' \in SetLastError("")
       /\ policyPc' = "idle"
       /\ UNCHANGED <<credFile, policyCache, eventQueue, handoffFile, enforced, cred,
                      lastVersion, applied>>]_vars

\* C8 witness: a tick was answered 304 while the cache and queued events
\* were on disk
C8_Witness ==
  /\ pc = "running" /\ policyResult = "notmodified"
  /\ Exists(policyCache)
  /\ Len(eventQueue) > 0
  /\ lastVersion # 0

\* C9: once a policy tick that was handed an envelope with a new token has
\* ended, the credential file stores that token and the envelope's version,
\* and the requests sent since bear that token.
C9_RotationTakesEffect ==
  (pc = "running" /\ policyPc = "idle" /\ rotated.token # 0) =>
    /\ StoredToken = rotated.token
    /\ StoredVersion = rotated.version
    /\ bearer # 0 => bearer = rotated.token

\* ------------------------------------------------------------------------
\* Properties of the loop driver (SpecBackoff)
\* ------------------------------------------------------------------------
RECURSIVE Pow2(_)
Pow2(n) == IF n = 0 THEN 1 ELSE 2 * Pow2(n - 1)

Min(a, b) == IF a < b THEN a ELSE b

\* C10: with positive interval, retry_backoff and retry_max_delay the first
\* tick runs without a wait, the wait after k consecutive failures is
\* min(retry_backoff * 2^(k-1), retry_max_delay) and never more than
\* retry_max_delay, and after a successful tick the wait is the interval and
\* the delay is retry_backoff again.
C10_WaitSchedule ==
  (loopCfg.interval > 0 /\ loopCfg.retryBackoff > 0 /\ loopCfg.retryMaxDelay > 0) =>
    /\ (loopPc = "work" /\ wait = 0) => slept = 0
    /\ (loopPc = "top" /\ failures > 0) =>
         /\ wait = Min(loopCfg.retryBackoff * Pow2(failures - 1), loopCfg.retryMaxDelay)
         /\ wait <= loopCfg.retryMaxDelay
    /\ (loopPc = "top" /\ failures = 0 /\ wait # 0) =>
         /\ wait = loopCfg.interval
         /\ delay = loopCfg.retryBackoff

\* ------------------------------------------------------------------------
\* Properties of the loops and of the supervisor (SpecRun)
\* ------------------------------------------------------------------------
\* errors that are not cancellation: set and not wrapping context.Canceled
NonCancellation(err) == err # "nil" /\ ~IsCanceled(err)

\* C11: a loop ends only on cancellation.  A tick whose work returned an
\* error that is not cancellation, the per-tick timeout included, leaves
\* the loop waiting the backoff delay for its next tick; a loop returns only
\* once the shared context is done, and what it returns is the context's
\* error or a cancellation error of its work, never another error of the
\* work.
C11_LoopEndsOnlyOnCancellation ==
  [][\A i \in 1..loops :
       loopState'[i] # loopState[i] =>
         /\ (loopState[i].pc = "work" /\ NonCancellation(loopState'[i].err) =>
               /\ loopState'[i].pc = "wait"
               /\ loopState'[i].sleep = "delay"
               /\ errCh' = errCh)
         /\ (loopState'[i].pc = "returned" =>
               /\ ctxErr # "nil"
               /\ \/ loopState[i].pc = "wait" /\ loopState'[i].ret = ctxErr
                  \/ /\ loopState[i].pc = "work"
                     /\ IsCanceled(loopState'[i].ret)
                     /\ loopState'[i].ret = loopState'[i].err)]_vars

\* C11 witness: no context is done, one loop waits its backoff delay after
\* a tick that timed out and another after a tick that failed otherwise
C11_Witness ==
  /\ ctxErr = "nil"
  /\ \E i, j \in 1..loops :
       /\ loopState[i] = [pc |-> "wait", sleep |-> "delay",
                          err |-> "wrappedDeadlineExceeded", ret |-> "nil"]
       /\ loopState[j] = [pc |-> "wait", sleep |-> "delay", err |-> "error", ret |-> "nil"]

\* C12: when Run has returned and a loop had returned an error that is not
\* cancellation, the shared context is cancelled, all five loops have
\* returned and Run's result is that loop's error.
C12_FailedLoopEndsRun ==
  runPc = "returned" =>
    \A i \in 1..loops :
      NonCancellation(loopState[i].ret) =>
        /\ ctxErr # "nil"
        /\ \A j \in 1..loops : loopState[j].pc = "returned"
        /\ runResult = loopState[i].ret

\* C12 witness: Run has returned an error that is not cancellation, after a
\* loop returned such an error
C12_Witness ==
  /\ runPc = "returned"
  /\ \E i \in 1..loops : NonCancellation(loopState[i].ret)
  /\ NonCancellation(runResult)

\* C13: when the context handed to Run was cancelled and no loop returned
\* an error that is not cancellation, Run returns context.Canceled.
C13_GracefulReturnsCancellation ==
  (/\ runPc = "returned"
   /\ rootErr = "Canceled"
   /\ \A i \in 1..loops : ~NonCancellation(loopState[i].ret))
    => runResult = "Canceled"

\* ------------------------------------------------------------------------
\* Properties of EnsureRollback (SpecRollback)
\* ------------------------------------------------------------------------
\* the latest call found the status command working and a rollback demanded
FoundDemand(c) == c.n > 0 /\ c.status.available /\ NeedsRollback(c.status)

\* C14 as stated: over all calls and status changes the rollback command is
\* attempted at most once for each booted checksum.
C14_OncePerBootedChecksum == \A x \in 1..MaxChecksum : attempts[x] <= 1

\* C14 amended: the rollback command is not attempted by two calls in a row
\* that both find a rollback demanded on the same booted checksum.  (A call
\* that finds no rollback demanded clears the remembered identifier, and a
\* call on another checksum replaces it: either allows a further attempt.)
C14_NotTwiceInARow ==
  [][(rb'.n = rb.n + 1 /\ rb'.invoked /\ rb'.status.BootedChecksum # 0) =>
       ~(FoundDemand(rb) /\ rb.status.BootedChecksum = rb'.status.BootedChecksum)]_vars

\* C14 witness: three calls found a rollback demanded, the command was
\* attempted once on each of two booted checksums and not by the third call
C14_Witness ==
  /\ rb.n = 3
  /\ FoundDemand(rb)
  /\ ~rb.invoked
  /\ \E x, y \in 1..MaxChecksum : x # y /\ attempts[x] = 1 /\ attempts[y] = 1

\* the first call of a manager, on a status that demands rollback, invokes
\* the rollback command and, the command succeeding, returns the one event
\* update.rollback.triggered whose target is the status's rollback target
FirstCallTriggers ==
  (rb.n = 0 /\ FoundDemand(rb')) =>
    /\ rb'.invoked
    /\ (rb'.err = "nil" =>
          rb'.events = <<UpdateEvent("update.rollback.triggered", rb'.status.RollbackTarget)>>)

\* C15 as stated: the first call on a status that demands rollback invokes
\* the rollback command and emits update.rollback.triggered with the target
\* if known; a second call that finds the status unchanged invokes no
\* rollback command and returns no event.
C15_SecondCallSilent ==
  [][rb'.n = rb.n + 1 =>
       /\ FirstCallTriggers
       /\ ((FoundDemand(rb) /\ rb'.status = rb.status) =>
             ~rb'.invoked /\ rb'.events = <<>>)]_vars

\* C15 amended: as stated when the identifier (booted checksum, else
\* channel) is not empty; on a status with neither booted checksum nor
\* channel every call invokes the rollback command again.
C15_SecondCallSilentWithIdentifier ==
  [][rb'.n = rb.n + 1 =>
       /\ FirstCallTriggers
       /\ ((FoundDemand(rb) /\ rb'.status = rb.status) =>
             IF Identifier(rb.status) # 0
             THEN ~rb'.invoked /\ rb'.events = <<>> /\ rb'.err = "nil"
             ELSE rb'.invoked)]_vars

\* C15 witness: the second of two calls found the status of the first, a
\* rollback demanded with the channel as identifier and a known target,
\* and did nothing
C15_Witness ==
  /\ rb.n = 2
  /\ FoundDemand(rb)
  /\ rb.status.BootedChecksum = 0
  /\ rb.status.RollbackTarget # 0
  /\ Identifier(rb.status) = lastRollbackAttempt
  /\ ~rb.invoked
  /\ rb.events = <<>>

\* ------------------------------------------------------------------------
\* Properties of updates.Manager.Apply (SpecReboot)
\* ------------------------------------------------------------------------
\* the maintenance windows a policy lists, as weekdays and minutes of the day
ListedWindows(policy) ==
  {policy.Maintenance[k] : k \in {j \in 1..Len(policy.Maintenance) :
                                   policy.Maintenance[j].kind = "window"}}

WindowDays(w) == IF Len(w.days) = 0 THEN 0..6 ELSE {w.days[k] : k \in 1..Len(w.days)}

\* time t lies inside window w: on one of its days between start and end,
\* the whole day when start and end are equal, and until end on the day
\* after when the window crosses midnight
InsideWindow(w, t) ==
  LET day == (t \div 86400) % 7
      clock == (t \div 60) % 1440
  IN IF w.start = w.end THEN day \in WindowDays(w)
     ELSE IF w.start < w.end THEN day \in WindowDays(w) /\ w.start <= clock /\ clock < w.end
     ELSE \/ day \in WindowDays(w) /\ clock >= w.start
          \/ ((day + 6) % 7) \in WindowDays(w) /\ clock < w.end

\* the times at which a window of the policy starts, in the week of t and
\* the two weeks after it
WindowStarts(policy, t) ==
  UNION {{((t \div 604800) + week) * 604800 + day * 86400
            + (IF w.start = w.end THEN 0 ELSE w.start) * 60 :
            week \in 0..2, day \in WindowDays(w)} : w \in ListedWindows(policy)}

\* the start of the next window after t
NextWindowStart(policy, t) ==
  CHOOSE s \in WindowStarts(policy, t) :
    s > t /\ \A o \in WindowStarts(policy, t) : o > t => s <= o

\* the Apply reached the reboot gate with a reboot required by the policy
\* and pending on the host
AtRebootGate ==
  /\ upOut.made
  /\ upOut.err \in {"nil", "reboot"}
  /\ upIn.policy.RebootRequired
  /\ upOut.RebootRequired

Deferred(payload) == RebootEvent("update.reboot.deferred", payload)

\* C16: the reboot command is issued only when the policy
\* requires a reboot, the status Apply holds (refreshed after a rebase) says
\* a reboot is pending and now lies inside a maintenance window; when now is
\* outside every window, no reboot command is issued and the last event is
\* update.reboot.deferred with the start of the next window as
\* scheduled_for.
C16_RebootOnlyInsideWindow ==
  /\ (upOut.made /\ upOut.rebooted =>
        /\ AtRebootGate
        /\ \E w \in ListedWindows(upIn.policy) : InsideWindow(w, upIn.host.now))
  /\ ((AtRebootGate /\ \A w \in ListedWindows(upIn.policy) : ~InsideWindow(w, upIn.host.now)) =>
        /\ ~upOut.rebooted
        /\ upOut.events # <<>>
        /\ upOut.events[Len(upOut.events)] =
             Deferred([scheduled_for |-> NextWindowStart(upIn.policy, upIn.host.now)]))

\* ------------------------------------------------------------------------
\* Properties of the durable queues (SpecQueue)
\* ------------------------------------------------------------------------
\* the items a well-formed file holds
ItemsOf(file) == IF file.kind = "json" THEN file.items ELSE <<>>

\* C17: for both queues, an Append of x that returns no error leaves the
\* items the file held followed by x, in order, and the Load that follows,
\* by the same queue or by a new one on the path after a restart, returns
\* exactly those.  (An Append of no events does not read the file; the
\* file it finds is taken to be one that decodes.)
C17_AppendThenLoad ==
  [][qCall'.n = qCall.n + 1 =>
       /\ ((qCall'.op = "append" /\ qCall'.err = "nil" /\ Len(qCall'.items) > 0) =>
             qFile' = JsonArray(ItemsOf(qFile) \o qCall'.items))
       /\ ((/\ qCall'.op = "load" /\ qCall.op = "append" /\ qCall.err = "nil"
            /\ (Len(qCall.items) > 0 \/ qCall.pre.kind # "malformed")) =>
             /\ qCall'.err = "nil"
             /\ qCall'.loaded = ItemsOf(qCall.pre) \o qCall.items)]_vars

\* C17 witness: a new queue after a restart loaded two items of an earlier
\* append followed by the two items of the latest one
C17_Witness ==
  /\ qCall.op = "load"
  /\ qCall.n = 4
  /\ qCall.loaded = <<2, 1, 1, 2>>

\* the file holds exactly the elements of the slice Replace was given: their
\* JSON array, or null for the nil slice
HoldsReplaced ==
  /\ qFile'.kind \in {"json", "null"}
  /\ ItemsOf(qFile') = Elements(qCall'.items)
  /\ qFile'.kind = "null" <=> qCall'.items = NilSlice

\* what a call on an empty queue does: Load returns nothing, Append leaves
\* its items, Replace leaves its items
AsEmptyQueue ==
  /\ qCall'.op = "load" => qCall'.err = "nil" /\ qCall'.loaded = <<>>
  /\ (qCall'.op = "append" /\ qCall'.err = "nil" /\ Len(qCall'.items) > 0) =>
       qFile' = JsonArray(qCall'.items)
  /\ (qCall'.op = "replace" /\ qCall'.err = "nil") => HoldsReplaced
  /\ qCall'.err # "nil" => qFile' = qFile

\* C19 as stated: a queue whose file is missing or zero bytes long behaves
\* as an empty queue; a Load, Append or Replace on a malformed file returns
\* the decode error and leaves the file as it was.
C19_MalformedFailsEveryOperation ==
  [][qCall'.n = qCall.n + 1 =>
       /\ (qFile.kind \in {"missing", "zero"} => AsEmptyQueue)
       /\ (qFile.kind = "malformed" => qCall'.err = "decode" /\ qFile' = qFile)]_vars

\* C19 amended: a queue whose file is missing or zero bytes long behaves as
\* an empty queue; a Load, and an Append of at least one item, on a
\* malformed file returns the decode error and leaves the file as it was.
\* Replace does not read the file: on a malformed file it succeeds and
\* overwrites it unless the write fails.  An Append of no events returns
\* no error and leaves the file as it was.
C19_MalformedFailsLoadAndAppend ==
  [][qCall'.n = qCall.n + 1 =>
       /\ (qFile.kind \in {"missing", "zero"} => AsEmptyQueue)
       /\ (qFile.kind = "malformed" =>
             /\ (qCall'.op = "load" \/ (qCall'.op = "append" /\ Len(qCall'.items) > 0)) =>
                  qCall'.err = "decode" /\ qFile' = qFile
             /\ (qCall'.op = "append" /\ Len(qCall'.items) = 0) =>
                  qCall'.err = "nil" /\ qFile' = qFile
             /\ qCall'.op = "replace" =>
                  IF qCall'.err = "nil" THEN HoldsReplaced
                  ELSE qCall'.err = "write" /\ qFile' = qFile)]_vars

\* C19 witness: an Append of two items on a malformed file returned the
\* decode error and the file is still malformed
C19_Witness ==
  /\ qCall.op = "append"
  /\ Len(qCall.items) = 2
  /\ qCall.pre = Malformed
  /\ qCall.err = "decode"
  /\ qFile = Malformed

\* ------------------------------------------------------------------------
\* Properties of the file writes (SpecWrite)
\* ------------------------------------------------------------------------
\* what the latest operation on the path is to leave there: the complete
\* document of a write, no file after a removal
PostImage == IF wrOp = "remove" THEN AbsentFile ELSE Complete(wrDoc)

\* C18: at every step of every operation that changes a file, hence after a
\* crash at any step, the file at the path reads as what it was when the
\* operation began or as what the operation is to leave there.
C18_TargetIsPreOrPostImage ==
  wrOp # "none" => (target = wrPre \/ target = PostImage)

\* ------------------------------------------------------------------------
\* Properties of the state tick's drain (SpecStateTick)
\* ------------------------------------------------------------------------
\* the snapshot is among the acknowledged ones
Acknowledged(snapshot) == \E i \in 1..Len(acked) : acked[i] = snapshot

\* between Load and Replace the tick holds the queue as it is on disk; the
\* queue is the tail end of what was appended, everything in front of it
\* was acknowledged, and acknowledgements came in the order of appending
DrainState ==
  /\ stPc \in {"send", "replace"} => stPending = ItemsOf(stFile) /\ stPending # <<>>
  /\ \E k \in 0..Len(appended) :
       /\ ItemsOf(stFile) = SubSeq(appended, k + 1, Len(appended))
       /\ \A i \in 1..k : Acknowledged(appended[i])
  /\ \A i, j \in 1..Len(acked) : i < j => acked[i] <= acked[j]

\* what one step may do to the queue and to the acknowledgements
DrainStep ==
  /\ acked' # acked =>
        /\ ItemsOf(stFile) # <<>>
        /\ acked' = Append(acked, Head(ItemsOf(stFile)))
        /\ stFile' = stFile
  /\ ItemsOf(stFile') # ItemsOf(stFile) =>
        \/ /\ ItemsOf(stFile) # <<>>
           /\ ItemsOf(stFile') = Tail(ItemsOf(stFile))
           /\ Acknowledged(Head(ItemsOf(stFile)))
        \/ ItemsOf(stFile') = Append(ItemsOf(stFile), snapshots')
  /\ stPc = "send" /\ acked' = acked /\ stErr' = "send" =>
        /\ stPc' = "idle"
        /\ stFile' = stFile
        /\ Head(ItemsOf(stFile')) = Head(stPending)

\* C20: the state tick sends the head of the state queue, one snapshot per
\* request and in the order of appending; a snapshot leaves the queue only
\* as its head and only once the server acknowledged it; a failed send ends
\* the tick with the queue as it was, the failed head in front.
C20_DrainHeadFirst == []DrainState /\ [][DrainStep]_vars

\* two ticks drained snapshot 1 and the third tick's send of snapshot 2
\* failed, with snapshot 3 appended behind it
C20_Witness ==
  /\ stPc = "idle"
  /\ stErr = "send"
  /\ acked = <<1>>
  /\ ItemsOf(stFile) = <<2, 3>>

\* ------------------------------------------------------------------------
\* Properties of the event flush and of the login tick (SpecEvents)
\* ------------------------------------------------------------------------
\* in how many acknowledged batches the event was delivered
Deliveries(event) ==
  Cardinality({i \in 1..Len(batches) :
                 \E k \in 1..Len(batches[i]) : batches[i][k] = event})

\* the event is in the queue file
InQueue(event) == \E k \in 1..Len(ItemsOf(evFile)) : ItemsOf(evFile)[k] = event

\* what one step of the flush may do: a tick that finds the queue empty
\* sends nothing, a failed send leaves the file as it is, and the Replace
\* after an acknowledgement leaves an empty queue unless the write fails
FlushStep ==
  /\ requests' # requests => flPending # <<>>
  /\ flPc = "idle" /\ flPc' = "send" => ItemsOf(evFile) # <<>>
  /\ flPc = "send" /\ flPc' = "idle" /\ flErr' = "send" =>
        evFile' = evFile /\ batches' = batches
  /\ flPc = "replace" /\ flPc' = "idle" /\ flErr' = "nil" => evFile' = JsonArray(<<>>)

\* C21: once a flush has succeeded, possibly after failed ones, every
\* event that was queued and is no longer in the queue was delivered in
\* exactly one acknowledged batch, and no event was delivered in two.
C21_DeliveredInExactlyOneBatch ==
  flPc = "idle" /\ flErr = "nil" /\ batches # <<>> =>
    \A k \in 1..Len(queued) :
      /\ Deliveries(queued[k]) <= 1
      /\ ~InQueue(queued[k]) => Deliveries(queued[k]) = 1

\* the first three parts of C21, which hold
C21_FlushSteps == [][FlushStep]_vars

\* ------------------------------------------------------------------------
\* Properties of EnsureEnrollment (SpecEnroll)
\* ------------------------------------------------------------------------
\* the file holds credentials with a token
Usable(file) == Exists(file) /\ file[1].cred.token # 0

\* C22: a call that finds a credential file with a token returns what the
\* file stores, leaves the credential file and the handoff file as they are
\* and makes no enroll request; so from the first such call on every call
\* returns the same and the backend sees no further enrollment.
C22_StoredCredentialsReturned ==
  [][Usable(enFile) /\ enCall'.n = enCall.n + 1 =>
       /\ enCall'.result.err = "nil"
       /\ enCall'.result.cred = enFile[1].cred
       /\ enCall'.result.policy = enFile[1].policy
       /\ enFile' = enFile
       /\ enHandoff' = enHandoff
       /\ enrollRequests' = enrollRequests]_vars

\* the second call in a row on stored credentials, with a handoff file with
\* id and token lying next to them and the device enrolled by the first call
C22_Witness ==
  /\ enCall.n = 3
  /\ Usable(enCall.file)
  /\ enCall.result.cred = enCall.file[1].cred
  /\ enHandoff = File([device_id |-> 1, device_token |-> 1, policy |-> Issued(1, 0)])
  /\ enrollRequests = 1

\* the handoff file holds an id and a token
HandoffComplete(handoff) ==
  Exists(handoff) /\ handoff[1].device_id # 0 /\ handoff[1].device_token # 0

\* C23: a call without usable credentials on a handoff file with id and
\* token makes no enroll request, removes the handoff file only with its
\* credentials and policy in the credential file, and when it returns nil
\* it returns them with both done; on a handoff file without id or token
\* the call returns an error and leaves both files as they are.
C23_HandoffPersistedThenRemoved ==
  enCall.n > 0 /\ ~Usable(enCall.file) /\ Exists(enCall.handoff) =>
    LET h == enCall.handoff[1]
        c == Credentials(h.device_id, h.device_token, h.policy.version)
    IN IF HandoffComplete(enCall.handoff)
       THEN /\ ~enCall.result.enrollCalled
            /\ enCall.result.handoffFile = NoFile =>
                 enCall.result.credFile = File(Stored(c, h.policy))
            /\ enCall.result.err = "nil" =>
                 /\ enCall.result.cred = c
                 /\ enCall.result.policy = h.policy
                 /\ enCall.result.credFile = File(Stored(c, h.policy))
                 /\ enCall.result.handoffFile = NoFile
       ELSE /\ enCall.result.err # "nil"
            /\ ~enCall.result.enrollCalled
            /\ enCall.result.credFile = enCall.file
            /\ enCall.result.handoffFile = enCall.handoff

\* a handoff adopted over a credential file with an empty token
C23_Witness ==
  /\ enCall.n > 0
  /\ enCall.file = File(Stored(Credentials(2, 0, 0), EmptyEnvelope))
  /\ HandoffComplete(enCall.handoff)
  /\ enCall.result.err = "nil"
  /\ enFile = File(Stored(Credentials(1, 1, 1), Issued(1, 0)))
  /\ enHandoff = NoFile

\* a handoff with a token and no id refused
C23_WitnessRejected ==
  /\ enCall.n > 0
  /\ enCall.file = NoFile
  /\ Exists(enCall.handoff)
  /\ enCall.handoff[1].device_id = 0 /\ enCall.handoff[1].device_token = 1
  /\ enCall.result.err = "missing credentials"

\* ------------------------------------------------------------------------
\* Properties of Attest (SpecAttest)
\* ------------------------------------------------------------------------
\* the latest call read the PCRs and so did a call before it; atPrev holds
\* the PCRs of the nearest such call
TwoReadings == atCall.n > 0 /\ atCall.result.read /\ atPrev # <<>>

\* the latest call made no submission, returned no events and no error and
\* recorded the time of the attempt
Silent ==
  /\ ~atCall.result.submitted
  /\ atCall.result.events = <<>>
  /\ atCall.result.err = "nil"
  /\ atMgr.lastAttempt = atCall.now

\* C24 as claimed: of two calls in a row that read the same PCRs the second
\* is silent, and a call that reads PCRs other than the call before it
\* submits.
C24_SamePcrsOneSubmission ==
  TwoReadings =>
    IF atCall.host.pcrs = atPrev[1] THEN Silent ELSE atCall.result.submitted

\* C24 amended: a call that reads the PCRs of the latest acknowledged
\* submission is silent, and so two calls in a row that read the same PCRs
\* make one submission when the first ends with these PCRs acknowledged; a
\* call that reads PCRs other than the acknowledged ones submits, and with
\* nothing acknowledged yet a call that reads any PCR submits.
C24_AcknowledgedPcrsOneSubmission ==
  atCall.n > 0 /\ atCall.result.read =>
    IF atCall.attested # <<>>
    THEN IF atCall.host.pcrs = atCall.attested[1]
         THEN Silent ELSE atCall.result.submitted
    ELSE Len(atCall.host.pcrs) > 0 => atCall.result.submitted

\* the second of two calls in a row on the same PCRs, an hour after the
\* first had them acknowledged, is silent
C24_Witness ==
  /\ TwoReadings
  /\ atCall.n = 2
  /\ atCall.host.pcrs = <<1, 2>>
  /\ atPrev = <<atCall.host.pcrs>>
  /\ attested = atPrev
  /\ Silent

\* ------------------------------------------------------------------------
\* Properties of the shared fields of the running agent (Spec)
\* ------------------------------------------------------------------------
\* the policy loop is in a step that ends its tick, hence with a call of
\* SetLastError, which assigns the field whatever it held
PolicySetsLastError ==
  ENABLED (/\ PullPolicyError \/ PullPolicyNotModified \/ PolicyApply \/ PolicyPersist
           /\ policyPc' = "idle")

\* Collector.Snapshot: the values last_error of a snapshot taken now can
\* have.  The state loop reads the field without a lock: it gets what the
\* field holds (a torn string when two SetLastError calls left one), and
\* beside a SetLastError of the policy loop possibly a torn string (the new
\* value is the field's value one step later).
SnapshotLastError ==
  {lastErr} \cup (IF PolicySetsLastError THEN {TornString} ELSE {})

\* C25: a tick that fails leaves its error for the next snapshot; stated for
\* the event loop, whose tick fails when ReportEvents does: a snapshot taken
\* right after the tick carries the error of the send.
C25_FailedTickSetsLastError ==
  [][pc = "running" /\ flushPc = "send" /\ flushPc' = "idle" =>
       SnapshotLastError' = {"report events"}]_vars

\* C27: an envelope whose signature does not verify, pulled by a tick or
\* handed over at startup, leaves the agent running with the manager as it
\* was, so that the next tick reports the same version and pulls again.
C27_BadSignatureKeepsRunning ==
  [][/\ pc' # "boot"
     /\ \/ /\ pc = "enrolled" /\ pc' # pc
           /\ initialPolicy.version # 0 /\ Verify(initialPolicy) # "nil"
        \/ /\ pc = "running" /\ policyPc = "apply" /\ policyPc' # policyPc
           /\ Verify(envelope) # "nil"
     => /\ pc' = "running"
        /\ policyPc' = "idle"
        /\ ReportVersion(lastVersion', policyCache') = ReportVersion(lastVersion, policyCache)]_vars

\* C28: the policy tick's rotation takes the credentials in memory from the
\* old ones to the new ones in one step: a step that changes the token
\* leaves the version of the envelope that brought the token.
C28_CredentialsSwappedWhole ==
  [][pc = "running" /\ pc' = "running" /\ cred'.token # cred.token =>
       cred'.version = envelope.version]_vars

\* ------------------------------------------------------------------------
\* Properties of the ticks on a failing disk (SpecEvents)
\* ------------------------------------------------------------------------
\* C26: a tick whose write of the event queue fails is a failed tick; stated
\* for the login tick: when Append returned an error for the collected
\* events the tick returned an error.
C26_QueueWriteFailureFailsTick ==
  login.appendErr # "nil" => login.err # "nil"

\* ------------------------------------------------------------------------
\* Properties of the maintenance-window functions (SpecWindows)
\* ------------------------------------------------------------------------
\* the segments an entry is to expand to: one for each of its days, two
\* when the window crosses midnight
SegmentCount(w) ==
  (IF Len(w.days) = 0 THEN 7 ELSE Len(w.days)) * (IF w.end < w.start THEN 2 ELSE 1)

RECURSIVE SegmentCountFrom(_, _)
SegmentCountFrom(entries, k) ==
  IF k > Len(entries) THEN 0 ELSE SegmentCount(entries[k]) + SegmentCountFrom(entries, k + 1)

MondayFriday == Window(DayRange(1, 5), Clock(2, 0), Clock(3, 0))

SundayNight == Window(<<0>>, Clock(23, 0), Clock(1, 0))

Daily == Window(<<>>, Clock(2, 0), Clock(3, 0))

\* C29: the segments of a window list are as many as its entries demand,
\* each a range of minutes of one week with its end excluded, and
\* maintenanceAllowsNow holds at the times that lie inside one of the listed
\* windows and at no other; with the two examples of the claim.
C29_SegmentsCoverTheWindows ==
  wOut.made =>
    /\ Len(wOut.segments) = SegmentCountFrom(wIn.entries, 1)
    /\ \A k \in 1..Len(wOut.segments) :
         /\ 0 <= wOut.segments[k].start
         /\ wOut.segments[k].start <= wOut.segments[k].end
         /\ wOut.segments[k].end <= minutesPerWeek
    /\ wOut.allowed <=>
         \E k \in 1..Len(wIn.entries) : InsideWindow(wIn.entries[k], wIn.now)
    /\ wOut.allowed <=>
         \E k \in 1..Len(wOut.segments) :
           /\ wOut.segments[k].start <= minuteOfWeek(wIn.now)
           /\ minuteOfWeek(wIn.now) < wOut.segments[k].end
    /\ wIn.entries = <<MondayFriday>> =>
         /\ wIn.now = Time(1, 2, 30, 15) => wOut.allowed
         /\ wIn.now = Time(1, 4, 0, 0) => ~wOut.allowed
    /\ wIn.entries = <<SundayNight>> =>
         /\ wIn.now = Time(0, 23, 30, 59) => wOut.allowed
         /\ wIn.now = Time(1, 0, 30, 0) => wOut.allowed
         /\ wIn.now = Time(1, 2, 0, 0) => ~wOut.allowed

\* "Sun 23:00-01:00" evaluated on Monday at 00:30
C29_Witness ==
  /\ wOut.made
  /\ wIn.entries = <<SundayNight>>
  /\ wIn.now = Time(1, 0, 30, 0)
  /\ Len(wOut.segments) = 2
  /\ wOut.allowed

\* the times at which a segment starts, in the week of t and the week after
SegmentStarts(segments, t) ==
  {(t - (t % (minutesPerWeek * 60))) + (week * minutesPerWeek + segments[k].start) * 60 :
     week \in 0..1, k \in 1..Len(segments)}

\* C30: on a list with a window nextMaintenanceWindow finds a time, and it
\* is the earliest start of a segment later than now, in this week or the
\* next; with the two examples of the claim.
C30_NextIsEarliestLaterStart ==
  wOut.made =>
    /\ wOut.next.ok
    /\ wOut.next.time \in SegmentStarts(wOut.segments, wIn.now)
    /\ wOut.next.time > wIn.now
    /\ \A s \in SegmentStarts(wOut.segments, wIn.now) : s > wIn.now => wOut.next.time <= s
    /\ wIn.entries = <<Daily>> =>
         /\ wIn.now = Time(1, 1, 0, 0) => wOut.next.time = Time(1, 2, 0, 0)
         /\ wIn.now = Time(1, 4, 0, 0) => wOut.next.time = Time(2, 2, 0, 0)

\* daily "02:00-03:00" asked on Saturday at 04:00: the next start is Sunday
\* 02:00 of the following week
C30_Witness ==
  /\ wOut.made
  /\ wIn.entries = <<Daily>>
  /\ wIn.now = Time(6, 4, 0, 0)
  /\ wOut.next = [ok |-> TRUE, time |-> Time(7, 2, 0, 0)]

\* ------------------------------------------------------------------------
\* Properties of the attestation interval (SpecAttest)
\* ------------------------------------------------------------------------
\* the latest call found an attempt recorded less than the interval ago
Gated == atCall.pre.lastAttempt # 0 /\ atCall.pre.lastAttempt + minInterval > atCall.now

\* C31: a call on a manager without a recorded attempt goes on to the TPM,
\* a call made less than the interval after the recorded attempt returns no
\* events and no error, reads and submits nothing and leaves the manager as
\* it was, and a call made once the interval has passed goes on to the TPM
\* again.
C31_IntervalGatesAttest ==
  atCall.n > 0 =>
    /\ Gated =>
         /\ atCall.result.events = <<>>
         /\ atCall.result.err = "nil"
         /\ ~atCall.result.read
         /\ ~atCall.result.submitted
         /\ atCall.result.mgr = atCall.pre
    /\ ~Gated /\ atCall.host.tpm = "ok" => atCall.result.read
    /\ atCall.n = 1 => ~Gated

\* a call half an hour after a recorded attempt was gated
C31_Witness ==
  /\ atCall.n > 1
  /\ Gated
  /\ atCall.host.tpm = "ok"
  /\ atCall.now = atCall.pre.lastAttempt + 1
  /\ atCall.result.events = <<>>

\* a call exactly one interval after the recorded attempt read the PCRs
C31_WitnessReadyAgain ==
  /\ atCall.n > 1
  /\ atCall.pre.lastAttempt # 0
  /\ atCall.now = atCall.pre.lastAttempt + minInterval
  /\ atCall.result.read

\* the latest call submitted and the backend refused
Refused == atCall.result.submitted /\ atCall.result.err # "nil"

\* what the latest call recorded
RecordedByCall ==
  /\ Refused =>
       /\ atCall.result.mgr = atCall.pre
       /\ atCall.result.events = <<AttestEvent("attestation.boot.failure")>>
  /\ atCall.result.mgr.lastDigest # atCall.pre.lastDigest =>
       /\ atCall.result.submitted /\ atCall.result.err = "nil"
       /\ atCall.result.mgr = [lastDigest |-> hashPCRs(atCall.host.pcrs), lastAttempt |-> atCall.now]
  /\ atCall.result.mgr.lastAttempt # atCall.pre.lastAttempt =>
       /\ atCall.result.mgr.lastAttempt = atCall.now
       /\ \/ atCall.result.submitted /\ atCall.result.err = "nil"
          \/ /\ atCall.result.read /\ ~atCall.result.submitted
             /\ hashPCRs(atCall.host.pcrs) = atCall.pre.lastDigest
             /\ atCall.result.mgr.lastDigest = atCall.pre.lastDigest
  /\ atMgr = atCall.result.mgr

\* the call after a refused submission
AfterRefusal ==
  Refused /\ atCall'.n = atCall.n + 1 =>
    /\ atCall'.pre = atCall.pre
    /\ ~Gated'
    /\ atCall'.host.tpm = "ok" /\ atCall'.host.pcrs = atCall.host.pcrs =>
         atCall'.result.submitted

\* C38: a refused submission leaves digest and attempt time as they were,
\* emits attestation.boot.failure and returns the error; the call after it
\* is not gated and submits the same PCRs again; the digest is recorded on
\* an acknowledged submission only, the attempt time on an acknowledged
\* submission and on an unchanged digest.
C38_RefusalRecordsNothing == [](atCall.n > 0 => RecordedByCall) /\ [][AfterRefusal]_vars

\* a submission refused one interval after an acknowledged one, and then the
\* same PCRs submitted again at the same reading of the clock
C38_Witness ==
  /\ atCall.n = 3
  /\ atCall.pre.lastAttempt # 0
  /\ atCall.pre.lastAttempt < atCall.now
  /\ atPrev = <<atCall.host.pcrs>>
  /\ atCall.attested # <<>>
  /\ atCall.attested[1] # atCall.host.pcrs
  /\ atCall.result.submitted
  /\ atCall.result.err = "nil"

\* ------------------------------------------------------------------------
\* Properties of the state loop's tick (SpecStateLoop)
\* ------------------------------------------------------------------------
\* the steps of the latest tick that take, queue or send state
ReportSteps == {i \in 1..Len(slTick.log) : slTick.log[i] \in {"snapshot", "append_state", "send"}}

\* the latest tick found a rollback due that was not attempted before
RollbackDue ==
  /\ slTick.status.available
  /\ NeedsRollback(slTick.status)
  /\ ~(Identifier(slTick.status) # 0 /\ Identifier(slTick.status) = slTick.pre)

\* C32: every state tick starts with EnsureRollback, before the snapshot
\* is taken and before anything is sent, and a tick whose report failed has
\* invoked the rollback command when a rollback was due.
C32_EnsureRollbackFirst ==
  slTick.n > 0 =>
    /\ Len(slTick.log) > 0
    /\ slTick.log[1] = "ensure_rollback"
    /\ \A i \in ReportSteps : \E j \in 1..(i - 1) : slTick.log[j] = "ensure_rollback"
    /\ ReportSteps # {} /\ RollbackDue =>
         \E j \in 1..Len(slTick.log) :
           slTick.log[j] = "rollback" /\ \A i \in ReportSteps : j < i

\* a tick that rolled the host back and then failed to send its snapshot
C32_Witness ==
  /\ slTick.done
  /\ RollbackDue
  /\ slTick.rb.invoked
  /\ slTick.err = "send"
  /\ slTick.log = <<"ensure_rollback", "rollback", "append_events", "snapshot", "append_state", "send">>

\* the latest tick's EnsureRollback returned an error
RollbackError == slTick.n > 0 /\ slTick.rb.err # "nil"

\* after an error of EnsureRollback the tick is over with that error as
\* the last error and without a step of the report; a tick that sent state
\* had no such error
EndsAtRollbackError ==
  /\ RollbackError =>
       /\ slPc = "idle" /\ slTick.done
       /\ slTick.err = slTick.rb.err
       /\ slLastErr = slTick.rb.err
       /\ ReportSteps = {}
       /\ slStates = slTick.states
  /\ ReportSteps # {} => slTick.rb.err = "nil"

\* the step of a tick whose EnsureRollback returns an error: the events go
\* to the event queue, the state queue and the acknowledged snapshots stay;
\* and snapshots are acknowledged in the report of a tick without such an
\* error only
RollbackErrorStep ==
  /\ slTick'.n = slTick.n + 1 /\ slTick'.rb.err # "nil" =>
       /\ slStates' = slStates
       /\ slSent' = slSent
       /\ slTick'.eventsOK =>
            Load(slEvents').items = Load(slEvents).items \o slTick'.rb.events
       /\ ~slTick'.eventsOK => slEvents' = slEvents
  /\ slSent' # slSent \/ slStates' # slStates => slPc = "report" /\ slTick.rb.err = "nil"

\* C37: when EnsureRollback returns an error the tick ends there: its
\* events are handed to the event queue and the last error is set, no
\* snapshot is taken, queued or sent and the state queue stays as it was;
\* state is reported in ticks whose EnsureRollback returned nil only.
C37_RollbackErrorEndsTick == []EndsAtRollbackError /\ [][RollbackErrorStep]_vars

\* a tick that ended at a failed rollback command with snapshots waiting
\* in the state queue and the failure event in the event queue
C37_Witness ==
  /\ RollbackError
  /\ slTick.rb.err = "rollback"
  /\ slLastErr = "rollback"
  /\ Len(Load(slStates).items) > 0
  /\ Len(Load(slEvents).items) > 0
  /\ Load(slEvents).items[Len(Load(slEvents).items)] = UpdateEvent("update.rollback.failure", 0)

\* a tick that ended at a status that was not available
C37_WitnessStatus ==
  /\ RollbackError
  /\ slTick.rb.err = "status"
  /\ slLastErr = "status"
  /\ slTick.log = <<"ensure_rollback">>

\* the latest call found a rollback needed on the identifier it has
NeededOn(id) ==
  /\ slTick.n > 0
  /\ slTick.status.available
  /\ NeedsRollback(slTick.status)
  /\ Identifier(slTick.status) = id

\* the latest call invoked no rollback command and returned no event
QuietCall == ~slTick.rb.invoked /\ slTick.rb.events = <<>> /\ slTick.rb.err = "nil"

\* C34 as claimed: a call on an identifier whose rollback command failed
\* since the last call that found no rollback needed invokes no rollback
\* command and returns no event.
C34_FailedIdentifierNotRetried ==
  \A id \in slTick.failed : NeededOn(id) => QuietCall

\* what a call remembers: the identifier of a command it invoked, failed or
\* not; a call on the remembered identifier, when it is not empty, is
\* quiet; the remembered identifier changes in a call that finds no
\* rollback needed and in a call that invokes the command on another one
Remembered ==
  slTick.n > 0 =>
    /\ slLast = slTick.rb.last
    /\ slTick.rb.invoked =>
         /\ slTick.rb.last = Identifier(slTick.status)
         /\ slTick.rb.err # "nil" =>
              /\ slTick.rb.err = "rollback"
              /\ slTick.rb.events = <<UpdateEvent("update.rollback.failure", 0)>>
    /\ NeededOn(slTick.pre) /\ slTick.pre # 0 => QuietCall /\ slTick.rb.last = slTick.pre
    /\ slTick.rb.last # slTick.pre =>
         \/ slTick.status.available /\ ~NeedsRollback(slTick.status) /\ slTick.rb.last = 0
         \/ slTick.rb.invoked /\ Identifier(slTick.status) # slTick.pre

\* the call after one whose rollback command failed, on the same identifier
AfterFailedRollback ==
  /\ slTick.n > 0 /\ slTick.rb.err = "rollback"
  /\ slTick'.n = slTick.n + 1
  /\ slTick'.status.available /\ NeedsRollback(slTick'.status)
  /\ Identifier(slTick'.status) = Identifier(slTick.status)
  /\ Identifier(slTick.status) # 0
  => ~slTick'.rb.invoked /\ slTick'.rb.events = <<>> /\ slTick'.rb.err = "nil"

\* C34 amended: the identifier is remembered before the command is invoked,
\* so after a failed command calls on the same identifier, when it is not
\* empty, are quiet until a call that finds no rollback needed clears it or
\* a call on another identifier replaces it.
C34_RememberedIdentifierNotRetried == []Remembered /\ [][AfterFailedRollback]_vars

\* a quiet call on an identifier whose rollback command failed before
C34_Witness ==
  /\ slTick.n > 1
  /\ NeededOn(slTick.pre)
  /\ slTick.pre # 0
  /\ slTick.pre \in slTick.failed
  /\ QuietCall

\* ------------------------------------------------------------------------
\* Properties of the reboot gate without windows (SpecReboot) and of the
\* deferred reboot's time (SpecWindows)
\* ------------------------------------------------------------------------
\* the policy of the Apply lists no window: no entry, or blank entries
NoWindowListed ==
  \A k \in 1..Len(upIn.policy.Maintenance) : upIn.policy.Maintenance[k].kind = "blank"

\* C35: under a policy without maintenance windows (no entry or blank
\* entries only) an Apply that reaches the gate with a reboot required and
\* pending invokes the reboot command, with update.reboot.triggered at the
\* time of the Apply when the command succeeds, and no Apply returns
\* update.reboot.deferred, with scheduled_for or with reason=no_window; the
\* no_window form is returned under no policy at all.
C35_NoWindowAllowsReboot ==
  upOut.made =>
    /\ NoWindowListed =>
         /\ AtRebootGate =>
              /\ upOut.rebooted
              /\ upIn.host.rebootOK =>
                   /\ upOut.err = "nil"
                   /\ upOut.events[Len(upOut.events)] =
                        RebootEvent("update.reboot.triggered", [time |-> upIn.host.now])
         /\ \A k \in 1..Len(upOut.events) : upOut.events[k].type # "update.reboot.deferred"
    /\ \A k \in 1..Len(upOut.events) : upOut.events[k] # Deferred([reason |-> "no_window"])

\* on Monday 04:00:00 under a policy whose only entry is blank the reboot
\* that is required and pending is triggered
C35_Witness ==
  /\ upOut.made
  /\ upIn.policy.Maintenance = <<BlankEntry>>
  /\ upIn.host.now = Time(1, 4, 0, 0)
  /\ AtRebootGate
  /\ upOut.rebooted
  /\ upOut.events = <<RebootEvent("update.reboot.triggered", [time |-> upIn.host.now])>>

\* the time of the evaluation lies outside every listed window
OutsideAllWindows ==
  \A k \in 1..Len(wIn.entries) : ~InsideWindow(wIn.entries[k], wIn.now)

\* C36: at a time outside all windows of a list that has one,
\* nextMaintenanceWindow succeeds with a time later than now, at most one
\* week later, that lies inside a listed window and at which
\* maintenanceAllowsNow holds.
C36_NextWindowAllowsReboot ==
  wOut.made /\ OutsideAllWindows =>
    /\ ~wOut.allowed
    /\ wOut.next.ok
    /\ wOut.next.time > wIn.now
    /\ wOut.next.time - wIn.now <= minutesPerWeek * 60
    /\ \E k \in 1..Len(wIn.entries) : InsideWindow(wIn.entries[k], wOut.next.time)
    /\ maintenanceAllowsNow(wOut.segments, wOut.next.time)

\* "Tue 23:00-00:00" asked on Wednesday at 00:00:00, the start of its empty
\* second segment: the next window is Tuesday 23:00 of the week after
C36_Witness ==
  /\ wOut.made
  /\ OutsideAllWindows
  /\ wIn.entries = <<Window(<<2>>, Clock(23, 0), Clock(0, 0))>>
  /\ wIn.now = Time(3, 0, 0, 0)
  /\ wOut.next = [ok |-> TRUE, time |-> Time(9, 23, 0, 0)]

\* ------------------------------------------------------------------------
\* Properties of the fan-out's events in the queue (SpecFanOut)
\* ------------------------------------------------------------------------
\* the place of an event's adapter in the fan-out; the closing
\* policy.apply.success comes after all adapters
AdapterPlace(ev) ==
  IF ev.type = "policy.apply.success" THEN Len(AdapterOrder) + 1
  ELSE IF ev.type = "update.failure" THEN 3
  ELSE CHOOSE i \in 1..Len(AdapterOrder) : AdapterOrder[i] = ev.type

\* C33: in the event queue the events of one apply stand in the order in
\* which the apply returned them, which is the order of the adapters,
\* whatever the other loops append before, between the applies or after,
\* and whatever the flush removes.
C33_FanOutOrderKept ==
  LET items == ItemsOf(fqFile)
  IN \A i \in 1..Len(items) : \A j \in (i + 1)..Len(items) :
       items[i].src # 0 /\ items[i].src = items[j].src =>
         /\ items[i].seq < items[j].seq
         /\ AdapterPlace(items[i].ev) < AdapterPlace(items[j].ev)

\* an event of another loop, then the six events of the second apply, then
\* another event of another loop; the first apply's events are gone
C33_Witness ==
  LET items == ItemsOf(fqFile)
  IN /\ Len(items) = 8
     /\ fqApplies = 2
     /\ items[1].src = 0
     /\ items[8].src = 0
     /\ \A i \in 2..7 : items[i].src = 2 /\ items[i].seq = i - 1

\* ------------------------------------------------------------------------
\* Shutdown of Agent.Run (SpecRun)
\* ------------------------------------------------------------------------
\* the loops that have not returned
RunningLoops == {i \in 1..loops : loopState[i].pc # "returned"}

\* errCh has room for the result of every loop that has not returned
RoomForResults == Len(errCh) + Cardinality(RunningLoops) <= loops

\* Run has returned and so have the five loops
AllReturned == runPc = "returned" /\ RunningLoops = {}

\* with the shared context done nothing waits for something that cannot
\* come: a loop in a.wait can take the done context and send its result, a
\* loop at its tick can run it, the supervisor's select can take the done
\* context, and wg.Wait ends once the loops have returned
ShutdownNotBlocked ==
  ctxErr # "nil" /\ runPc # "returned" =>
    /\ \A i \in RunningLoops :
         IF loopState[i].pc = "wait" THEN ENABLED WaitDone(i) ELSE ENABLED Work(i)
    /\ round < loops => ENABLED SelectDone
    /\ round = loops /\ RunningLoops = {} => ENABLED RunReturn

\* C39: errCh always has room for the results still to come, so no loop
\* waits at its send, and while the shared context is done and Run has not
\* returned every loop and the supervisor can take the step that brings
\* them to their return, whichever cases the supervisor's select took; Run
\* returns only after the five loops.
C39_ShutdownNeverBlocks ==
  /\ RoomForResults
  /\ ShutdownNotBlocked
  /\ runPc = "returned" => RunningLoops = {}

\* Run has returned after five rounds that took the done context: the five
\* results are still in errCh
C39_Witness ==
  /\ AllReturned
  /\ round = loops
  /\ Len(errCh) = loops

\* ------------------------------------------------------------------------
\* C40: a failed credential write after a successful Apply
\* ------------------------------------------------------------------------
\* the step in which Persist returns an error to pullAndApplyPolicy
PersistFails ==
  policyPc = "persist" /\ policyPc' = "idle" /\ policyResult' = "persistfailed"

\* the tick fails with the persist error; the credentials in memory and the
\* last applied version are the new envelope's and stay so, the credential
\* file is as it was, and the version the next tick reports is the new one
AfterPersistFails ==
  PersistFails =>
    /\ policyPc' = "idle"
    /\ lastErr' \in SetLastError("persist credentials")
    /\ credFile' = credFile
    /\ cred' = cred
    /\ cred.version = envelope.version
    /\ envelope.token # 0 => cred.token = envelope.token
    /\ lastVersion' = envelope.version
    /\ ReportVersion(lastVersion', policyCache') = envelope.version

\* a tick is answered with an envelope only of a version other than the one
\* it reported
EnvelopeIsDifferent ==
  policyPc = "idle" /\ policyPc' = "apply" =>
    envelope'.version # ReportVersion(lastVersion, policyCache)

\* the last applied version changes only when a received envelope is
\* applied, or with the process (its start and its end)
LastVersionKept ==
  lastVersion' # lastVersion =>
    policyPc = "apply" \/ pc # "running" \/ pc' # "running"

\* the running agent writes the credential file only at the end of a tick
\* that received and applied an envelope; the other writer is the enrollment
\* at the start of the process
StoreKept ==
  credFile' # credFile =>
    \/ pc = "boot"
    \/ policyPc = "persist" /\ policyResult' = "applied" /\ envelope.version = lastVersion

\* C40: when the credential write fails after a successful Apply the policy
\* tick fails, while the token and version in memory and the last applied
\* version are already the new envelope's; later ticks report the new
\* version, a tick gets an envelope only of another version than the one it
\* reported, the last applied version stays until an envelope is applied,
\* and the credential file changes only in the write of a tick that got an
\* envelope, so until then it keeps the old token and version.
C40_FailedPersistNotRetried ==
  [][AfterPersistFails /\ EnvelopeIsDifferent /\ LastVersionKept /\ StoreKept]_vars

\* a tick after the failed write reported the new version and was answered
\* not modified: memory holds the new token and version, the credential file
\* the old ones
C40_Witness ==
  /\ pc = "running" /\ policyPc = "idle" /\ policyResult = "notmodified"
  /\ Exists(credFile)
  /\ lastVersion = cred.version
  /\ StoredVersion # cred.version
  /\ StoredToken # cred.token
  /\ serverVersion = lastVersion

====
